---- MODULE Spec2Model ----
(***************************************************************************)
(* A model of the caching, indexing and ranking core of the music          *)
(* discovery backend: firebase/db_ops.py (store operations, caches, prefix *)
(* index, user activity), services/saavn.py (provider client, slim_song)   *)
(* and recommender/engine.py (recommendation pipeline).                    *)
(*                                                                         *)
(* Text (queries, cache keys, titles, artist names, ids, languages) is a   *)
(* sequence of one-character strings, so that the string processing of the *)
(* code (lower, strip, replace, slicing, regex clean-up, split) is         *)
(* computed as the code computes it.  Python's None is the empty tuple     *)
(* None and a present value v is Some(v) where an operation may return     *)
(* either.                                                                 *)
(***************************************************************************)
EXTENDS Integers, Sequences, FiniteSets, TLC

VARIABLES
    db,     \* the key-value store: one field per top-level node
    now,    \* the clock, in seconds (time.time())
    ret,    \* the last read operation since the last write or clock tick:
            \* its name, arguments and result
    last,   \* the last write operation: its name, arguments and time
    proc,   \* the concurrent requests: each one's position and locals
    norm    \* the pure-function harness: an input and what was computed

vars == <<db, now, ret, last, proc, norm>>

-----------------------------------------------------------------------------
(* Options and small helpers                                               *)

None == <<>>
Some(v) == <<v>>
IsSome(o) == o # <<>>
Val(o) == o[1]

Min(a, b) == IF a <= b THEN a ELSE b
Max(a, b) == IF a >= b THEN a ELSE b

\* s[:n] of Python for n >= 0
Take(s, n) == SubSeq(s, 1, Min(Len(s), n))
\* s[-n:] of Python for n > 0
LastN(s, n) == SubSeq(s, Max(1, Len(s) - n + 1), Len(s))

\* dict.get(field, default) on a record
Get(r, f, default) == IF f \in DOMAIN r THEN r[f] ELSE default
\* d[k] = v on a dictionary (a function with a finite domain)
Put(d, k, v) == (k :> v) @@ d
\* the dictionary without key k
Drop(d, k) == [x \in (DOMAIN d) \ {k} |-> d[x]]
EmptyMap == [x \in {} |-> 0]

SeqsUpTo(S, n) == UNION {[1..k -> S] : k \in 0..n}
Range(s) == {s[i] : i \in DOMAIN s}
Fill(c, n) == [i \in 1..n |-> c]

RECURSIVE ConcatAll(_)
ConcatAll(ss) == IF ss = <<>> THEN <<>> ELSE Head(ss) \o ConcatAll(Tail(ss))

\* [x for x in s if P(x)]
RECURSIVE SelectSeqBy(_, _)
SelectSeqBy(s, keep) ==
    IF s = <<>> THEN <<>>
    ELSE IF Head(s) \in keep THEN <<Head(s)>> \o SelectSeqBy(Tail(s), keep)
         ELSE SelectSeqBy(Tail(s), keep)

-----------------------------------------------------------------------------
(* Text: str.lower, str.strip, str.replace, slicing                        *)

UpperCase == {"A", "B", "H", "X", "Y"}
LowerOf == [c \in UpperCase |->
              CASE c = "A" -> "a" [] c = "B" -> "b" [] c = "H" -> "h"
                [] c = "X" -> "x" [] c = "Y" -> "y"]
Letters == {"a", "b", "c", "d", "e", "g", "h", "i", "l", "m", "n", "o", "r",
            "s", "t", "u", "x", "y"} \cup UpperCase
Digits == {"0", "1", "2", "3", "4"}

LowerChar(c) == IF c \in UpperCase THEN LowerOf[c] ELSE c
Lower(s) == [i \in 1..Len(s) |-> LowerChar(s[i])]

IsSpace(c) == c = " "

\* str.strip(): drop leading and trailing whitespace
Strip(s) ==
    LET idx == {i \in 1..Len(s) : ~IsSpace(s[i])}
    IN IF idx = {} THEN <<>>
       ELSE SubSeq(s, CHOOSE i \in idx : \A j \in idx : i <= j,
                      CHOOSE i \in idx : \A j \in idx : i >= j)

\* str.replace(old, new) for one-character old and new
Replace(s, old, new) == [i \in 1..Len(s) |-> IF s[i] = old THEN new ELSE s[i]]

\* the [:100] of every cache key
KeyLen == 100

\* db_ops.normalize_query
normalize_query(q) ==
    Take(Replace(Replace(Strip(Lower(q)), "/", "_"), ".", "_"), KeyLen)


-----------------------------------------------------------------------------
(* The key-value store.  A node is a dictionary; get of a missing path is  *)
(* None (falsy), set_val replaces the value at the path wholesale.         *)

InitDb ==
    [ songs        |-> EmptyMap,   \* songs/{id}: the deep metadata cache
      search_index |-> EmptyMap,   \* search_index/{safe_key}
      prefix_index |-> EmptyMap,   \* prefix_index/{prefix}/{song_id} = True
      cache        |-> EmptyMap,   \* {node}/{safe_key} of the generic cache
      plays        |-> EmptyMap,   \* analytics/plays/{id}.count
      clicks       |-> EmptyMap,   \* analytics/clicks/{id}.count
      searches     |-> EmptyMap,   \* analytics/searches/{safe_query}.count
      users        |-> EmptyMap ]  \* users/{uid}/...

\* db_ops.song_get: get("songs/{id}")
song_get(d, song_id) ==
    IF song_id \in DOMAIN d.songs THEN Some(d.songs[song_id]) ELSE None

\* a variant that merges the new fields into the record already stored
song_set_Merging(d, song_id, metadata, t) ==
    [d EXCEPT !.songs = Put(@, song_id,
        ("updatedAt" :> t) @@ metadata @@ Get(@, song_id, EmptyMap))]

\* db_ops.song_set: stamps updatedAt and replaces the record
song_set(d, song_id, metadata, t) ==
    [d EXCEPT !.songs = Put(@, song_id, ("updatedAt" :> t) @@ metadata)]

\* db_ops.delete on a songs/{id} path
delete_song(d, song_id) == [d EXCEPT !.songs = Drop(@, song_id)]

-----------------------------------------------------------------------------
(* Prefix index                                                            *)

IsAlnum(c) == c \in Letters \cup Digits

\* re.sub(r'[^a-zA-Z0-9\s]', '', text): keep letters, digits and whitespace
RECURSIVE KeepAlnumSpace(_)
KeepAlnumSpace(s) ==
    IF s = <<>> THEN <<>>
    ELSE IF IsAlnum(Head(s)) \/ IsSpace(Head(s))
         THEN <<Head(s)>> \o KeepAlnumSpace(Tail(s))
         ELSE KeepAlnumSpace(Tail(s))

\* str.split(): the maximal runs of non-whitespace characters
RECURSIVE SplitFrom(_, _)
SplitFrom(s, cur) ==
    IF s = <<>> THEN (IF cur = <<>> THEN <<>> ELSE <<cur>>)
    ELSE IF IsSpace(Head(s))
         THEN (IF cur = <<>> THEN SplitFrom(Tail(s), <<>>)
               ELSE <<cur>> \o SplitFrom(Tail(s), <<>>))
         ELSE SplitFrom(Tail(s), Append(cur, Head(s)))
Split(s) == SplitFrom(s, <<>>)

\* word[:i] for i in range(1, len(word) + 1)
PrefixesOf(w) == {SubSeq(w, 1, i) : i \in 1..Len(w)}

\* db_ops.generate_prefixes (returned as a set: the caller only unions it)
generate_prefixes(text) ==
    IF text = <<>> THEN {}
    ELSE LET words  == Split(KeepAlnumSpace(Lower(text)))
             phrase == ConcatAll(words)
         IN UNION {PrefixesOf(words[i]) : i \in DOMAIN words}
              \cup PrefixesOf(phrase)

MinPrefixLen == 2

\* a variant without the skip of short prefixes
IndexedPrefixes_All(title, artist) ==
    generate_prefixes(title) \cup generate_prefixes(artist)

\* the prefixes index_song_for_search writes: those it does not skip
IndexedPrefixes(title, artist) ==
    {p \in generate_prefixes(title) \cup generate_prefixes(artist) :
        ~(Len(p) < MinPrefixLen)}

\* a variant whose write replaces the bucket
index_song_for_search_Replacing(d, song_id, title, artist) ==
    LET ps  == IndexedPrefixes(title, artist)
        old == d.prefix_index
    IN [d EXCEPT !.prefix_index =
          [p \in (DOMAIN old) \cup ps |->
              IF p \in ps THEN {song_id} ELSE old[p]]]

\* db_ops.index_song_for_search
index_song_for_search(d, song_id, title, artist) ==
    LET ps  == IndexedPrefixes(title, artist)
        old == d.prefix_index
    IN [d EXCEPT !.prefix_index =
          [p \in (DOMAIN old) \cup ps |->
              (IF p \in DOMAIN old THEN old[p] ELSE {})
                \cup (IF p \in ps THEN {song_id} ELSE {})]]

\* re.sub(r'[^a-zA-Z0-9]', '', text): keep letters and digits
RECURSIVE KeepAlnum(_)
KeepAlnum(s) ==
    IF s = <<>> THEN <<>>
    ELSE (IF IsAlnum(Head(s)) THEN <<Head(s)>> ELSE <<>>) \o KeepAlnum(Tail(s))

\* the key search_local_index reads (db_ops.py line 48)
SafePrefix(query) == KeepAlnum(Strip(Lower(query)))

\* list(data.keys()): the ids of a bucket in the key order of the store
BucketKeys(bucket, order) == SelectSeqBy(order, bucket)

\* the loop of search_local_index: the records of the ids that have one
RECURSIVE Hydrated(_, _)
Hydrated(d, song_ids) ==
    IF song_ids = <<>> THEN <<>>
    ELSE (IF IsSome(song_get(d, Head(song_ids)))
          THEN <<Val(song_get(d, Head(song_ids)))>> ELSE <<>>)
           \o Hydrated(d, Tail(song_ids))

\* the value at prefix_index/{p} is no dictionary: buckets that another
\* client of the database has overwritten are kept apart from the buckets
\* of ids, under foreign_buckets
NotADict(d, p) == p \in DOMAIN Get(d, "foreign_buckets", EmptyMap)

\* a variant that hydrates every id of the bucket and cuts to limit after
search_local_index_CutLast(d, query, limit, order) ==
    IF SafePrefix(query) = <<>> THEN <<>>
    ELSE IF NotADict(d, SafePrefix(query)) THEN <<>>
    ELSE IF SafePrefix(query) \notin DOMAIN d.prefix_index THEN <<>>
    ELSE Take(Hydrated(d, BucketKeys(d.prefix_index[SafePrefix(query)], order)),
              limit)

\* db_ops.search_local_index; order is the key order of the store
search_local_index(d, query, limit, order) ==
    IF SafePrefix(query) = <<>> THEN <<>>
    ELSE IF NotADict(d, SafePrefix(query)) THEN <<>>
    ELSE IF SafePrefix(query) \notin DOMAIN d.prefix_index THEN <<>>
    ELSE Hydrated(d, Take(BucketKeys(d.prefix_index[SafePrefix(query)], order),
                          limit))

-----------------------------------------------------------------------------
(* Query cache                                                             *)

TopN == 20
NoneText == <<"N", "o", "n", "e">>   \* how an f-string renders None

\* truthiness of song.get("id")
HasId(song) == Get(song, "id", <<>>) # <<>>

\* the loop of cache_set over results[:20]: song_set for every result with an id
RECURSIVE StoreDeep(_, _, _)
StoreDeep(d, results, t) ==
    IF results = <<>> THEN d
    ELSE LET song == Head(results)
         IN StoreDeep(IF HasId(song) THEN song_set(d, song.id, song, t) ELSE d,
                      Tail(results), t)

\* the ids cache_set lists: those of results[:20] that have one, in order
RECURSIVE ListedIds(_)
ListedIds(results) ==
    IF results = <<>> THEN <<>>
    ELSE (IF HasId(Head(results)) THEN <<Head(results).id>> ELSE <<>>)
           \o ListedIds(Tail(results))

\* song.get("title") or song.get("name")
TitleOrName(song) ==
    IF Get(song, "title", <<>>) # <<>> THEN song.title ELSE Get(song, "name", <<>>)

\* the last loop of cache_set: index every result, listed or not
RECURSIVE IndexAll(_, _)
IndexAll(d, results) ==
    IF results = <<>> THEN d
    ELSE LET song == Head(results)
         IN IndexAll(index_song_for_search(d, Get(song, "id", NoneText),
                                           TitleOrName(song),
                                           Get(song, "artist", <<>>)),
                     Tail(results))

\* a variant that lists and indexes the results and stores no record
cache_set_Unstored(d, query, results, t) ==
    IndexAll([d EXCEPT !.search_index =
                 Put(@, normalize_query(query),
                     [song_ids  |-> ListedIds(Take(results, TopN)),
                      timestamp |-> t])],
             results)

\* a variant that indexes only the results it lists
cache_set_IndexListed(d, query, results, t) ==
    LET safe_key == normalize_query(query)
        d1 == StoreDeep(d, Take(results, TopN), t)
        d2 == [d1 EXCEPT !.search_index =
                 Put(@, safe_key, [song_ids  |-> ListedIds(Take(results, TopN)),
                                   timestamp |-> t])]
    IN IndexAll(d2, Take(results, TopN))

\* db_ops.cache_set
cache_set(d, query, results, t) ==
    LET safe_key == normalize_query(query)
        d1 == StoreDeep(d, Take(results, TopN), t)
        d2 == [d1 EXCEPT !.search_index =
                 Put(@, safe_key, [song_ids  |-> ListedIds(Take(results, TopN)),
                                   timestamp |-> t])]
    IN IndexAll(d2, results)

\* a variant of the inline key that forgets lower()
CacheGetKey_NoLower(query) ==
    Take(Replace(Replace(Strip(query), "/", "_"), ".", "_"), KeyLen)

\* the key cache_get computes inline (db_ops.py line 101)
CacheGetKey(query) ==
    Take(Replace(Replace(Strip(Lower(query)), "/", "_"), ".", "_"), KeyLen)

\* a variant of the test with <= for <
CacheFresh_Inclusive(d, safe_key, ttl, t) ==
    /\ safe_key \in DOMAIN d.search_index
    /\ (t - Get(d.search_index[safe_key], "timestamp", 0)) <= ttl

\* the test of cache_get (db_ops.py line 104):
\*   data and (time.time() - data.get("timestamp", 0)) < ttl_seconds
CacheFresh(d, safe_key, ttl, t) ==
    /\ safe_key \in DOMAIN d.search_index
    /\ (t - Get(d.search_index[safe_key], "timestamp", 0)) < ttl

\* the rehydration loop of cache_get
RECURSIVE Rehydrate(_, _)
Rehydrate(d, song_ids) ==
    IF song_ids = <<>> THEN <<>>
    ELSE (IF Head(song_ids) \in DOMAIN d.songs
          THEN <<d.songs[Head(song_ids)]>> ELSE <<>>)
           \o Rehydrate(d, Tail(song_ids))

\* a variant that returns whatever was rehydrated, also nothing
cache_get_EmptyIsHit(d, query, ttl, t) ==
    LET safe_key == CacheGetKey(query)
    IN IF CacheFresh(d, safe_key, ttl, t)
       THEN Some(Rehydrate(d, Get(d.search_index[safe_key], "song_ids", <<>>)))
       ELSE None

\* db_ops.cache_get: None, [] or a non-empty list of records
cache_get(d, query, ttl, t) ==
    LET safe_key == CacheGetKey(query)
    IN IF CacheFresh(d, safe_key, ttl, t)
       THEN LET song_ids == Get(d.search_index[safe_key], "song_ids", <<>>)
                results  == Rehydrate(d, song_ids)
            IN IF song_ids = <<>> THEN Some(<<>>)
               ELSE IF results # <<>> THEN Some(results)
               ELSE None
       ELSE None

-----------------------------------------------------------------------------
(* Generic cache                                                           *)

\* the key generic_cache_get and generic_cache_set compute
GenericKey(key) == Take(Replace(Replace(key, "/", "_"), ".", "_"), KeyLen)

\* the test of generic_cache_get (db_ops.py line 159)
GenericFresh(d, path, ttl, t) ==
    /\ path \in DOMAIN d.cache
    /\ (t - Get(d.cache[path], "timestamp", 0)) < ttl

\* db_ops.generic_cache_get
generic_cache_get(d, node, key, ttl, t) ==
    LET path == <<node, GenericKey(key)>>
    IN IF GenericFresh(d, path, ttl, t)
       THEN (IF "results" \in DOMAIN d.cache[path]
             THEN Some(d.cache[path].results) ELSE None)
       ELSE None

\* db_ops.generic_cache_set
generic_cache_set(d, node, key, value, t) ==
    [d EXCEPT !.cache = Put(@, <<node, GenericKey(key)>>,
                            [results |-> value, timestamp |-> t])]

\* cache/store.py
get_cached(d, collection, key, ttl, t) == generic_cache_get(d, collection, key, ttl, t)
set_cached(d, collection, key, data, t) == generic_cache_set(d, collection, key, data, t)


-----------------------------------------------------------------------------
(* Inputs of the cache operations                                          *)

MaxNow == 1        \* the clock of the cache specifications runs 0..MaxNow
MaxTtl == 2        \* ttl_seconds is drawn from 1..MaxTtl

Id1 == <<"s", "1">>
Id2 == <<"s", "2">>
Id3 == <<"s", "3">>

\* records shaped as _search_jiosaavn_direct builds them (saavn.py 152-164)
DirectSong(id, title, artist, language, url) ==
    [id |-> id, name |-> title, title |-> title, artist |-> artist,
     language |-> language, image |-> [str |-> "img"], streamUrl |-> url]

SongA == DirectSong(Id1, <<"A", "b", " ", "c">>, <<"X", "y">>, <<"h", "i">>, "u1")
SongB == DirectSong(Id2, <<"c", "d">>, <<"X", "y">>, <<"e", "n">>, "u2")

\* raw queries: the first two normalize to the same key a_b
CacheQueries == { <<"A", "/", "b">>, <<" ", "a", ".", "b">>, <<"c">> }
ResultInputs == { <<>>, <<SongA>>, <<SongA, SongB>> }
TtlInputs == 1..MaxTtl
TitleInputs == { <<>>, <<"a">>, <<"a", " ", "b", "c">>, <<"X", "-", "y">> }
GenericNodes == {"songs_cache"}
GenericKeys == { <<"k", ".", "1">>, <<"k", "_", "1">> }
GenericValues == { <<SongA>> }

NoRet == [op |-> "none"]
NoProc == EmptyMap
NoNorm == [q |-> <<>>, once |-> None, twice |-> None]

-----------------------------------------------------------------------------
(* Specification SpecNorm: normalize_query applied once and twice to a     *)
(* query drawn from the bounded input set                                  *)

MaxEdge == 2       \* free characters on each side of the padding
NormChars == {"A", " ", "/", "b"}
\* padding lengths: none, and those that put the edge at the [:100] cut
PadLens == {0} \cup ((KeyLen - MaxEdge)..(KeyLen + 1))
NormInputs ==
    { pre \o Fill("a", n) \o suf :
        pre \in SeqsUpTo(NormChars, MaxEdge), n \in PadLens,
        suf \in SeqsUpTo(NormChars, MaxEdge) }

InitNorm ==
    /\ db = InitDb /\ now = 0 /\ ret = NoRet /\ last = NoRet /\ proc = NoProc
    /\ norm \in {[q |-> q, once |-> None, twice |-> None] : q \in NormInputs}

NormalizeOnce ==
    /\ norm.once = None
    /\ norm' = [norm EXCEPT !.once = Some(normalize_query(norm.q))]
    /\ UNCHANGED <<db, now, ret, last, proc>>

NormalizeTwice ==
    /\ norm.once # None /\ norm.twice = None
    /\ norm' = [norm EXCEPT !.twice = Some(normalize_query(Val(norm.once)))]
    /\ UNCHANGED <<db, now, ret, last, proc>>

NextNorm == NormalizeOnce \/ NormalizeTwice

SpecNorm == InitNorm /\ [][NextNorm]_vars

-----------------------------------------------------------------------------
(* Specification SpecCache: the handlers of the query cache and of the     *)
(* generic cache, and the clock                                            *)

InitCache ==
    /\ db = InitDb /\ now = 0 /\ ret = NoRet /\ last = NoRet /\ proc = NoProc /\ norm = NoNorm

Tick ==
    /\ now < MaxNow
    /\ now' = now + 1
    /\ ret' = NoRet
    /\ UNCHANGED <<db, last, proc, norm>>

CacheSet(q, results) ==
    /\ db' = cache_set(db, q, results, now)
    /\ ret' = NoRet
    /\ last' = [op |-> "cache_set", q |-> q, results |-> results, at |-> now]
    /\ UNCHANGED <<now, proc, norm>>

CacheGet(q, ttl) ==
    /\ ret' = [op |-> "cache_get", q |-> q, ttl |-> ttl,
               val |-> cache_get(db, q, ttl, now)]
    /\ UNCHANGED <<db, now, last, proc, norm>>

GenericCacheSet(node, key, value) ==
    /\ db' = generic_cache_set(db, node, key, value, now)
    /\ ret' = NoRet
    /\ last' = [op |-> "generic_cache_set", node |-> node, key |-> key,
               value |-> value, at |-> now]
    /\ UNCHANGED <<now, proc, norm>>

GenericCacheGet(node, key, ttl) ==
    /\ ret' = [op |-> "generic_cache_get", node |-> node, key |-> key,
               ttl |-> ttl, val |-> generic_cache_get(db, node, key, ttl, now)]
    /\ UNCHANGED <<db, now, last, proc, norm>>

IndexSong(song_id, title, artist) ==
    /\ db' = index_song_for_search(db, song_id, title, artist)
    /\ ret' = NoRet
    /\ last' = [op |-> "index_song_for_search", id |-> song_id,
               title |-> title, artist |-> artist]
    /\ UNCHANGED <<now, proc, norm>>

NextCache ==
    \/ Tick
    \/ \E q \in CacheQueries, results \in ResultInputs : CacheSet(q, results)
    \/ \E q \in CacheQueries, ttl \in TtlInputs : CacheGet(q, ttl)
    \/ \E node \in GenericNodes, key \in GenericKeys, value \in GenericValues :
          GenericCacheSet(node, key, value)
    \/ \E node \in GenericNodes, key \in GenericKeys, ttl \in TtlInputs :
          GenericCacheGet(node, key, ttl)

SpecCache == InitCache /\ [][NextCache]_vars

-----------------------------------------------------------------------------
(* Specification SpecIndex: the two writers of the prefix index            *)

NextIndex ==
    \/ \E q \in CacheQueries, results \in ResultInputs : CacheSet(q, results)
    \/ \E song_id \in {Id1, Id3}, title \in TitleInputs, artist \in TitleInputs :
          IndexSong(song_id, title, artist)

SpecIndex == InitCache /\ [][NextIndex]_vars

-----------------------------------------------------------------------------
(* Specification SpecStore: SpecCache with the store's delete operation    *)
(* applied to songs/{id} by another client of the shared store             *)

DeleteSong(song_id) ==
    /\ song_id \in DOMAIN db.songs
    /\ db' = delete_song(db, song_id)
    /\ ret' = NoRet
    /\ last' = [op |-> "delete", id |-> song_id]
    /\ UNCHANGED <<now, proc, norm>>

NextStore ==
    \/ Tick
    \/ \E q \in CacheQueries, results \in ResultInputs : CacheSet(q, results)
    \/ \E q \in CacheQueries, ttl \in TtlInputs : CacheGet(q, ttl)
    \/ \E song_id \in {Id1, Id2} : DeleteSong(song_id)

SpecStore == InitCache /\ [][NextStore]_vars


-----------------------------------------------------------------------------
(* User activity: users/{uid}/... and the analytics counters               *)

Users == {"u1", "u2"}

\* what get(...) or {} gives for each child of a user that has no node yet
EmptyUser ==
    [ recently_played  |-> <<>>,      \* push log of {songId, playedAt}
      search_history   |-> <<>>,      \* push log of {query, timestamp}
      liked_songs      |-> {},        \* {song_id: True}
      followed_artists |-> EmptyMap,  \* {artist_id: {name, followedAt}}
      languages        |-> {},        \* {lang: True}
      recommendations  |-> None ]     \* the stored snapshot

UserNode(d, user_id) ==
    IF user_id \in DOMAIN d.users THEN d.users[user_id] ELSE EmptyUser

\* push("users/{uid}/recently_played", {songId, playedAt}): push keys sort
\* in push order, so the log is a sequence
push_recently_played(d, user_id, song_id, t) ==
    [d EXCEPT !.users = Put(@, user_id,
        [UserNode(d, user_id) EXCEPT !.recently_played =
            Append(@, [songId |-> song_id, playedAt |-> t])])]

\* push("users/{uid}/search_history", {query, timestamp})
push_search_history(d, user_id, query, t) ==
    [d EXCEPT !.users = Put(@, user_id,
        [UserNode(d, user_id) EXCEPT !.search_history =
            Append(@, [query |-> query, timestamp |-> t])])]

\* the key record_search computes inline (db_ops.py line 211)
SearchStatKey(query) ==
    Take(Replace(Replace(Strip(Lower(query)), "/", "_"), ".", "_"), KeyLen)

\* data = stats_ref.get() or {}; count = data.get("count", 0)
read_count(d, node, id) ==
    IF id \in DOMAIN d[node] THEN Get(d[node][id], "count", 0) ELSE 0

\* a variant of the write that increments what the store holds now
write_count_Atomic(d, node, id, count) ==
    [d EXCEPT ![node] = Put(@, id, [count |-> read_count(d, node, id) + 1])]

\* a variant that adds the increment to the count it read and to the count
\* the store holds
write_count_Both(d, node, id, count) ==
    [d EXCEPT ![node] =
        Put(@, id, [count |-> count + read_count(d, node, id) + 1])]

\* stats_ref.set({"count": count + 1})
write_count(d, node, id, count) ==
    [d EXCEPT ![node] = Put(@, id, [count |-> count + 1])]

\* db_ops.record_like
record_like(d, user_id, song_id) ==
    [d EXCEPT !.users = Put(@, user_id,
        [UserNode(d, user_id) EXCEPT !.liked_songs = @ \cup {song_id}])]

-----------------------------------------------------------------------------
(* Specification SpecPlay: concurrent record_play, record_click and        *)
(* record_search requests.  Each request is a thread of the server; its    *)
(* store calls are its steps: push (record_play, record_search), then the  *)
(* read of the counter, then the write of count + 1.  The clock stands     *)
(* still: the requests of a run arrive within one second.                  *)

NumProcs == 2      \* concurrent requests
MaxEvents == 3     \* requests started in a run
Procs == 1..NumProcs

PlaySongs == {Id1, Id2}
SearchQueries == { <<"A">> }

IdleProc == [pc |-> "idle", node |-> "none", id |-> <<>>, count |-> 0]

\* requests started so far: log entries and counted or in-flight clicks
Started ==
    LET logs(u) == Len(UserNode(db, u).recently_played)
                     + Len(UserNode(db, u).search_history)
        RECURSIVE Sum(_)
        Sum(S) == IF S = {} THEN 0
                  ELSE LET x == CHOOSE x \in S : TRUE IN logs(x) + Sum(S \ {x})
        RECURSIVE SumClicks(_)
        SumClicks(S) == IF S = {} THEN 0
                        ELSE LET x == CHOOSE x \in S : TRUE
                             IN read_count(db, "clicks", x) + SumClicks(S \ {x})
    IN Sum(Users) + SumClicks(PlaySongs)
         + Cardinality({p \in Procs : proc[p].pc # "idle" /\ proc[p].node = "clicks"})

InitPlay ==
    /\ db = InitDb
    /\ now = 0 /\ ret = NoRet /\ last = NoRet /\ norm = NoNorm
    /\ proc = [p \in Procs |-> IdleProc]

\* record_play, line 178: the push of the history entry
RecordPlayPush(p, user_id, song_id) ==
    /\ proc[p].pc = "idle" /\ Started < MaxEvents
    /\ db' = push_recently_played(db, user_id, song_id, now)
    /\ proc' = [proc EXCEPT ![p] =
                  [pc |-> "read", node |-> "plays", id |-> song_id, count |-> 0]]
    /\ UNCHANGED <<now, ret, last, norm>>

\* record_click has no push: the request starts at the read
RecordClickStart(p, item_id) ==
    /\ proc[p].pc = "idle" /\ Started < MaxEvents
    /\ proc' = [proc EXCEPT ![p] =
                  [pc |-> "read", node |-> "clicks", id |-> item_id, count |-> 0]]
    /\ UNCHANGED <<db, now, ret, last, norm>>

\* record_search, line 205: the push of the search history entry
RecordSearchPush(p, user_id, query) ==
    /\ proc[p].pc = "idle" /\ Started < MaxEvents
    /\ db' = push_search_history(db, user_id, query, now)
    /\ proc' = [proc EXCEPT ![p] =
                  [pc |-> "read", node |-> "searches", id |-> SearchStatKey(query),
                   count |-> 0]]
    /\ UNCHANGED <<now, ret, last, norm>>

\* lines 185-186, 198-199, 213-214: the read of the counter
CounterRead(p) ==
    /\ proc[p].pc = "read"
    /\ proc' = [proc EXCEPT ![p].pc = "write",
                            ![p].count = read_count(db, proc[p].node, proc[p].id)]
    /\ UNCHANGED <<db, now, ret, last, norm>>

\* lines 187, 200, 215: the write of count + 1; the request is done
CounterWrite(p) ==
    /\ proc[p].pc = "write"
    /\ db' = write_count(db, proc[p].node, proc[p].id, proc[p].count)
    /\ proc' = [proc EXCEPT ![p] = IdleProc]
    /\ UNCHANGED <<now, ret, last, norm>>

NextPlay ==
    \/ \E p \in Procs, u \in Users, s \in PlaySongs : RecordPlayPush(p, u, s)
    \/ \E p \in Procs, s \in PlaySongs : RecordClickStart(p, s)
    \/ \E p \in Procs, u \in Users, q \in SearchQueries : RecordSearchPush(p, u, q)
    \/ \E p \in Procs : CounterRead(p)
    \/ \E p \in Procs : CounterWrite(p)

SpecPlay == InitPlay /\ [][NextPlay]_vars

-----------------------------------------------------------------------------
(* List helpers of the recommendation engine                               *)

\* s.insert after every element whose key is >= the key of x
RECURSIVE InsertDesc(_, _, _)
InsertDesc(x, s, key) ==
    IF s = <<>> THEN <<x>>
    ELSE IF Head(s)[key] >= x[key] THEN <<Head(s)>> \o InsertDesc(x, Tail(s), key)
         ELSE <<x>> \o s

\* sorted(s, key=lambda x: x[key], reverse=True): stable, so equal keys keep
\* the order they have in s
RECURSIVE SortDescInto(_, _, _)
SortDescInto(s, acc, key) ==
    IF s = <<>> THEN acc
    ELSE SortDescInto(Tail(s), InsertDesc(Head(s), acc, key), key)
SortDesc(s, key) == SortDescInto(s, <<>>, key)

\* the first occurrences of s, in order
RECURSIVE Distinct(_, _)
Distinct(s, had) ==
    IF s = <<>> THEN <<>>
    ELSE IF Head(s) \in had THEN Distinct(Tail(s), had)
         ELSE <<Head(s)>> \o Distinct(Tail(s), had \cup {Head(s)})

CountIn(s, x) == Cardinality({i \in DOMAIN s : s[i] = x})

\* a in s for two strings
IsSubstring(a, s) ==
    \E i \in 0..(Len(s) - Len(a)) : SubSeq(s, i + 1, i + Len(a)) = a

\* ", ".join(names)
RECURSIVE JoinNames(_)
JoinNames(primary) ==
    IF primary = <<>> THEN <<>>
    ELSE IF Len(primary) = 1 THEN Get(primary[1], "name", <<>>)
         ELSE Get(primary[1], "name", <<>>) \o <<",", " ">> \o JoinNames(Tail(primary))

-----------------------------------------------------------------------------
(* services/saavn.py: slim_song.  URLs are opaque values: none of them     *)
(* carries a size marker or the CDN host that slim_song would rewrite, and *)
(* no text carries an HTML entity.  The payload fields album, albumId,     *)
(* duration and year are left out of every record.                         *)

Medium == <<"m", "e", "d", "i", "u", "m">>
Low    == <<"l", "o", "w">>
High   == <<"h", "i", "g", "h">>

UnknownArtist ==
    <<"U", "n", "k", "n", "o", "w", "n", " ", "A", "r", "t", "i", "s", "t">>

\* the test of the early return (saavn.py line 382)
AlreadySlim(song) ==
    /\ "title" \in DOMAIN song
    /\ "imageUrl" \notin DOMAIN song
    /\ "image" \in DOMAIN song
    /\ "str" \in DOMAIN song.image

slim_song(song, quality) ==
    IF AlreadySlim(song) THEN song
    ELSE
    LET image_data == Get(song, "image", EmptyMap)
        img ==
            IF "list" \in DOMAIN image_data /\ image_data.list # <<>>
            THEN LET l == image_data.list
                 IN IF quality = Low THEN l[1]
                    ELSE IF quality = High THEN l[Len(l)]
                    ELSE IF Len(l) > 1 THEN l[2] ELSE l[1]
            ELSE IF "str" \in DOMAIN image_data THEN image_data.str
            ELSE ""
        downloads == Get(song, "downloadUrl", <<>>)
        stream_url ==
            IF downloads # <<>>
            THEN IF quality = Low
                 THEN (IF Len(downloads) > 1 THEN downloads[2] ELSE downloads[1])
                 ELSE IF quality = High THEN downloads[Len(downloads)]
                 ELSE IF Len(downloads) > 2 THEN downloads[3]
                      ELSE downloads[Len(downloads)]
            ELSE Get(song, "streamUrl", "")
        artist_name ==
            IF "artists" \in DOMAIN song /\ "primary" \in DOMAIN song.artists
            THEN JoinNames(song.artists.primary)
            ELSE IF "artist" \in DOMAIN song THEN song.artist
            ELSE UnknownArtist
    IN [ id        |-> Get(song, "id", <<>>),
         title     |-> IF Get(song, "name", <<>>) # <<>> THEN song.name
                       ELSE Get(song, "title", <<>>),
         artist    |-> artist_name,
         image     |-> [str |-> img],
         language  |-> Get(song, "language", <<>>),
         streamUrl |-> stream_url ]

\* [slim_song(s, quality) for s in songs]
SlimAll(songs, quality) == [i \in DOMAIN songs |-> slim_song(songs[i], quality)]

-----------------------------------------------------------------------------
(* The catalog provider (external): the records its endpoints answer with. *)
(* A raw song of the wrapper API carries artists.primary, an image list    *)
(* and a downloadUrl list; it has no streamUrl and no artistId.            *)

ArtistX == [id |-> <<"a", "1">>, name |-> <<"X">>]
ArtistY == [id |-> <<"a", "2">>, name |-> <<"Y">>]
ArtistOrder == <<ArtistX.id, ArtistY.id>>     \* the key order of the store

RawSong(id, name, primary, language, urls) ==
    [id |-> id, name |-> name, artists |-> [primary |-> primary],
     language |-> language, image |-> [list |-> <<"i50", "i150", "i500">>],
     downloadUrl |-> urls]

Id4 == <<"s", "4">>
IdOrder == <<Id1, Id2, Id3, Id4>>             \* the key order of the store

Raw1 == RawSong(Id1, <<"a", "b">>, <<ArtistX>>, <<"h", "i">>,
                <<"r1a", "r1b", "r1c", "r1d">>)
Raw2 == RawSong(Id2, <<"c", "d">>, <<ArtistX, ArtistY>>, <<"H", "i">>,
                <<"r2a", "r2b", "r2c">>)
Raw3 == RawSong(Id3, <<"e", "d">>, <<ArtistY>>, <<"e", "n">>, <<"r3a">>)
Raw4 == RawSong(Id4, <<"g", "o">>, <<ArtistX>>, <<"e", "n">>,
                <<"r4a", "r4b">>)
Catalog == <<Raw1, Raw2, Raw3, Raw4>>

\* the record _search_jiosaavn_direct builds for a catalog song
DirectOf(raw) ==
    DirectSong(raw.id, raw.name, JoinNames(raw.artists.primary), raw.language,
               raw.downloadUrl[Len(raw.downloadUrl)])

RawArtist(a) == [id |-> a.id, name |-> a.name, image |-> <<"a150", "a500">>]
RawAlbum(id, name, primary, language) ==
    [id |-> id, name |-> name, artists |-> [primary |-> primary],
     language |-> language, image |-> <<"b150", "b500">>]
Albums == << RawAlbum(<<"b", "1">>, <<"a", "l">>, <<ArtistX>>, <<"H", "i">>),
             RawAlbum(<<"b", "2">>, <<"m", "e">>, <<ArtistY>>, <<"e", "n">>) >>

\* how the provider behaves during one request: each endpoint answers or
\* fails (raises, times out), and stream URLs answer the probe or not
Envs ==
    [ suggest : {"ok", "empty", "raise"},   \* /api/songs/{id}/suggestions
      direct  : BOOLEAN,                    \* api.php search.getResults
      song    : BOOLEAN,                    \* /api/songs/{id}
      browse  : BOOLEAN,                    \* /api/search/artists, /albums
      probe   : BOOLEAN ]                   \* HEAD on a stream URL

Raised == [ok |-> FALSE]
Returned(v) == [ok |-> TRUE, val |-> v]

\* saavn.get_song_suggestions: the other songs of the catalog
get_song_suggestions(song_id, env) ==
    IF env.suggest = "raise" THEN Raised
    ELSE IF env.suggest = "empty" THEN Returned([data |-> <<>>])
    ELSE Returned([data |-> SelectSeq(Catalog, LAMBDA s : s.id # song_id)])

TrendingQuery ==
    <<"t", "r", "e", "n", "d", "i", "n", "g", " ", "s", "o", "n", "g", "s">>

\* saavn._search_jiosaavn_direct: [] on every failure; the provider matches
\* the query against the artist names and answers at most n = limit songs
search_jiosaavn_direct(query, limit, env) ==
    IF ~env.direct THEN <<>>
    ELSE LET all  == [i \in DOMAIN Catalog |-> DirectOf(Catalog[i])]
             hits == SelectSeq(all, LAMBDA s :
                        query = TrendingQuery \/ IsSubstring(query, s.artist))
         IN Take(hits, limit)

\* a song the provider serves by id with a streamUrl in its record (the field
\* get_song probes); search and suggestions do not list it
Id5 == <<"s", "5">>
Raw5 == RawSong(Id5, <<"n", "o">>, <<ArtistY>>, <<"e", "n">>, <<"r5a">>)
          @@ [streamUrl |-> "r5s"]
SongPages == Catalog \o <<Raw5>>

\* _request("/api/songs/{id}")
request_song(song_id, env) ==
    IF ~env.song THEN Raised
    ELSE Returned([data |-> SelectSeq(SongPages, LAMBDA s : s.id = song_id)])

\* saavn.get_artist_songs: _request("/api/artists/{id}/songs")
get_artist_songs(artist_id, env) ==
    IF ~env.browse THEN Raised
    ELSE Returned([data |-> [songs |->
            SelectSeq(Catalog, LAMBDA s :
                \E j \in DOMAIN s.artists.primary :
                    s.artists.primary[j].id = artist_id)]])

\* saavn.search_artists
search_artists(query, env) ==
    IF ~env.browse THEN Raised
    ELSE Returned([data |-> [results |-> <<RawArtist(ArtistX), RawArtist(ArtistY)>>]])

\* saavn.search_albums: the albums of the artists the query names
search_albums(query, env) ==
    IF ~env.browse THEN Raised
    ELSE Returned([data |-> [results |->
            SelectSeq(Albums, LAMBDA b :
                IsSubstring(query, JoinNames(b.artists.primary)))]])

\* saavn.is_url_reachable
is_url_reachable(url, env) == url # "" /\ env.probe

-----------------------------------------------------------------------------
(* db_ops.py: what the engine reads and writes of a user                   *)

\* db_ops.get_user_recently_played: the song ids of the log, newest first
get_user_recently_played(d, user_id, limit) ==
    LET items == SortDesc(UserNode(d, user_id).recently_played, "playedAt")
    IN [i \in 1..Min(limit, Len(items)) |-> Get(items[i], "songId", None)]

get_liked_songs(d, user_id) == UserNode(d, user_id).liked_songs
get_followed_artists(d, user_id) == UserNode(d, user_id).followed_artists
get_user_languages(d, user_id) == UserNode(d, user_id).languages

\* db_ops.set_user_languages: {lang.lower(): True for lang in languages}
set_user_languages(d, user_id, languages) ==
    [d EXCEPT !.users = Put(@, user_id,
        [UserNode(d, user_id) EXCEPT !.languages = {Lower(l) : l \in languages}])]

\* db_ops.follow_artist: update() merges name and followedAt into the child
follow_artist(d, user_id, artist_id, artist_name, t) ==
    [d EXCEPT !.users = Put(@, user_id,
        [UserNode(d, user_id) EXCEPT !.followed_artists =
            Put(@, artist_id, [name |-> artist_name, followedAt |-> t])])]

\* db_ops.get_stored_recommendations
get_stored_recommendations(d, user_id) == UserNode(d, user_id).recommendations

\* line 364: recommendations["updatedAt"] = int(time.time()), on the
\* caller's dictionary
StampUpdatedAt(recommendations, t) == ("updatedAt" :> t) @@ recommendations

\* a variant that writes the personalized list and the stamp into the
\* stored bundle and leaves its other fields
store_recommendations_Fieldwise(d, user_id, recommendations, t) ==
    [d EXCEPT !.users = Put(@, user_id,
        [UserNode(d, user_id) EXCEPT !.recommendations =
            Some(("updatedAt" :> t)
                   @@ [personalized |-> recommendations.personalized]
                   @@ (IF IsSome(@) THEN Val(@) ELSE recommendations))])]

\* db_ops.store_recommendations: stamps the bundle, then set_val replaces
\* users/{uid}/recommendations with it
store_recommendations(d, user_id, recommendations, t) ==
    [d EXCEPT !.users = Put(@, user_id,
        [UserNode(d, user_id) EXCEPT !.recommendations =
            Some(StampUpdatedAt(recommendations, t))])]

-----------------------------------------------------------------------------
(* services/saavn.py: search_songs (page 1, no language) and get_song.     *)
(* An operation that may write and may raise returns [db, ok, val].        *)

SearchTtl == 3600

\* truthiness of an optional list
Truthy(o) == IsSome(o) /\ Val(o) # <<>>

\* saavn.search_songs.  With no direct result the test of line 205 reads
\* the local results before any assignment: UnboundLocalError
search_songs_from(d, query, cached_results, direct_results, t) ==
    IF Truthy(cached_results)
    THEN [db |-> d, ok |-> TRUE,
          val |-> [data |-> [results |-> Val(cached_results)],
                   source |-> "cache"]]
    ELSE IF direct_results = <<>> THEN [db |-> d, ok |-> FALSE]
    ELSE [db |-> cache_set(d, query, direct_results, t), ok |-> TRUE,
          val |-> [data |-> [results |-> direct_results]]]

\* cache_key = f"{query}_{language}" if language else query
CacheKeyOf(query, language) ==
    IF language # <<>> THEN query \o <<"_">> \o language ELSE query

\* a variant of search_songs that never reads QueryCache
search_songs_in_Uncached(d, query, language, limit, env, t) ==
    search_songs_from(d, CacheKeyOf(query, language), None,
                      search_jiosaavn_direct(query, limit, env), t)

\* saavn.search_songs with its language argument: the language enters the
\* cache key and the fallback request only, the direct search ignores it
search_songs_in(d, query, language, limit, env, t) ==
    search_songs_from(d, CacheKeyOf(query, language),
                      cache_get(d, CacheKeyOf(query, language), SearchTtl, t),
                      search_jiosaavn_direct(query, limit, env), t)

search_songs(d, query, limit, env, t) ==
    search_songs_from(d, query, cache_get(d, query, SearchTtl, t),
                      search_jiosaavn_direct(query, limit, env), t)

\* saavn.get_song
\* a variant of the read test without the probe
CachedIsLive_NoProbe(refresh, cached, env) ==
    ~refresh /\ IsSome(cached) /\ Get(Val(cached), "streamUrl", "") # ""

\* lines 258-264: the cached record is served
CachedIsLive(refresh, cached, env) ==
    /\ ~refresh
    /\ IsSome(cached)
    /\ is_url_reachable(Get(Val(cached), "streamUrl", ""), env)

\* a variant of the write test without the probe
CacheWorthy_NoProbe(data, env) == data # <<>>

\* lines 271-278: the fetched record is stored
CacheWorthy(data, env) ==
    data # <<>> /\ is_url_reachable(Get(data[1], "streamUrl", ""), env)

get_song_from(d, song_id, refresh, cached, results, env, t) ==
    IF CachedIsLive(refresh, cached, env)
    THEN [db |-> d, ok |-> TRUE,
          val |-> [data |-> <<Val(cached)>>, source |-> "cache"]]
    ELSE IF ~results.ok THEN [db |-> d, ok |-> FALSE]
    ELSE [db |-> IF CacheWorthy(results.val.data, env)
                 THEN song_set(d, song_id, results.val.data[1], t)
                 ELSE d,
          ok |-> TRUE,
          val |-> results.val]

get_song(d, song_id, refresh, env, t) ==
    get_song_from(d, song_id, refresh, song_get(d, song_id),
                  request_song(song_id, env), env, t)

-----------------------------------------------------------------------------
(* recommender/engine.py                                                   *)

TrendingTtl   == 1800
TrendingKeep  == 50
FallbackScore == 100
SuggestTtl    == 86400
TopArtists    == 5

GlobalKey == <<"g", "l", "o", "b", "a", "l">>

\* a call of the engine has returned: no exception left it.  The results of
\* the engine carry ok only when it is FALSE
Completed(r) == Get(r, "ok", TRUE)

\* a variant of the handler of get_trending_songs that raises again
TrendingExcept_Reraised(d) == [db |-> d, ok |-> FALSE]

\* line 70, except: pass, result being [] still
TrendingExcept(d) == [db |-> d, val |-> <<>>]

\* a variant of the fallback entry that scores nothing
FallbackEntry_Unscored(s) == s @@ [songId |-> s.id, score |-> 0]

\* {"songId": s["id"], "score": 100, **s}
FallbackEntry(s) == s @@ [songId |-> s.id, score |-> FallbackScore]

\* song ids t01, t02, ... and the key order of analytics/plays, which the
\* store returns sorted by key
DigitChar == <<"0", "1", "2", "3", "4", "5", "6", "7", "8", "9">>
CounterId(i) == <<"t", DigitChar[(i \div 10) + 1], DigitChar[(i % 10) + 1]>>
MaxCounters == TrendingKeep + 2
KeyOrder == IdOrder \o <<Id5>> \o [i \in 1..MaxCounters |-> CounterId(i)]

\* a variant of the score that forgets the factor
ScoredPlays_Unscaled(d, ids) ==
    [i \in DOMAIN ids |->
        d.plays[ids[i]] @@
        [songId |-> ids[i], score |-> Get(d.plays[ids[i]], "count", 0)]]

\* engine.get_trending_songs
\* lines 45-55: an entry per node of plays, in the key order of the store
ScoredPlays(d, ids) ==
    [i \in DOMAIN ids |->
        d.plays[ids[i]] @@
        [songId |-> ids[i], score |-> Get(d.plays[ids[i]], "count", 0) * 2]]

\* lines 62-70: the fallback search, its failure swallowed
TrendingFallback(raw, limit) ==
    IF ~raw.ok THEN TrendingExcept(raw.db)
    ELSE [db  |-> raw.db,
          val |-> Take([i \in DOMAIN raw.val.data.results |->
                           FallbackEntry(raw.val.data.results[i])], limit)]

\* lines 57-72: the analytics result is cached, even when empty
TrendingComputed(d1, result, limit, env, t) ==
    IF result # <<>> THEN [db |-> d1, val |-> Take(result, limit)]
    ELSE TrendingFallback(search_songs(d1, TrendingQuery, limit, env, t), limit)

TrendingFrom(d, cached, result, limit, env, t) ==
    IF Truthy(cached) THEN [db |-> d, val |-> Take(Val(cached), limit)]
    ELSE TrendingComputed(set_cached(d, "trending", GlobalKey, result, t),
                          result, limit, env, t)

get_trending_songs(d, limit, env, t) ==
    TrendingFrom(d, get_cached(d, "trending", GlobalKey, TrendingTtl, t),
                 Take(SortDesc(ScoredPlays(d, SelectSeqBy(KeyOrder, DOMAIN d.plays)),
                               "score"), TrendingKeep),
                 limit, env, t)

\* f"suggestions_{seed_song_id}_{quality}"
SuggestionsKey(seed_song_id, quality) ==
    <<"s", "u", "g", "g", "e", "s", "t", "i", "o", "n", "s", "_">>
        \o seed_song_id \o <<"_">> \o quality

\* [s for s in songs if s["id"] not in skipped]
NotSkipped(songs, skipped) == SelectSeq(songs, LAMBDA s : s.id \notin skipped)

\* a variant of the handler of get_content_based that raises again
ContentExcept_Reraised(d) == [db |-> d, ok |-> FALSE]

\* lines 91-92, except Exception: return []
ContentExcept(d) == [db |-> d, val |-> <<>>]

\* engine.get_content_based
\* lines 89-90: the slimmed suggestions are cached, then filtered
ContentFetched(d, cache_key, slim, skipped, limit, t) ==
    [db  |-> set_cached(d, "songs_cache", cache_key, slim, t),
     val |-> Take(NotSkipped(slim, skipped), limit)]

ContentFrom(d, cache_key, cached, raw, skipped, limit, quality, t) ==
    IF Truthy(cached)
    THEN [db |-> d, val |-> Take(NotSkipped(Val(cached), skipped), limit)]
    ELSE IF ~raw.ok THEN ContentExcept(d)
    ELSE ContentFetched(d, cache_key,
                        SlimAll(Get(raw.val, "data", <<>>), quality),
                        skipped, limit, t)

get_content_based(d, seed_song_id, skipped, limit, quality, env, t) ==
    ContentFrom(d, SuggestionsKey(seed_song_id, quality),
                get_cached(d, "songs_cache",
                           SuggestionsKey(seed_song_id, quality), SuggestTtl, t),
                get_song_suggestions(seed_song_id, env),
                skipped, limit, quality, t)

\* engine.get_engagement_score: plays * 1.0
get_engagement_score(d, song_id) == read_count(d, "plays", song_id)

\* the name detect_favorite_artists counts for a cached record, if any
CountedArtist(song) ==
    IF "artists" \in DOMAIN song /\ "primary" \in DOMAIN song.artists
    THEN (IF song.artists.primary # <<>>
          THEN <<Get(song.artists.primary[1], "name", <<>>)>> ELSE <<>>)
    ELSE IF "artist" \in DOMAIN song THEN <<song.artist>>
    ELSE <<>>

\* engine.detect_favorite_artists: Counter.most_common(5) orders by count,
\* equal counts in the order the names were first counted
detect_favorite_artists(d, song_ids) ==
    LET names == ConcatAll([i \in DOMAIN song_ids |->
                     IF IsSome(song_get(d, song_ids[i]))
                     THEN CountedArtist(Val(song_get(d, song_ids[i])))
                     ELSE <<>>])
        firsts == Distinct(names, {})
        counts == [i \in DOMAIN firsts |->
                     [name |-> firsts[i], count |-> CountIn(names, firsts[i])]]
        common == Take(SortDesc(counts, "count"), TopArtists)
    IN [i \in DOMAIN common |-> common[i].name]

\* engine.get_time_context on the hour of the local clock
get_time_context(hour) ==
    IF 5 <= hour /\ hour < 12 THEN "morning"
    ELSE IF 12 <= hour /\ hour < 17 THEN "afternoon"
    ELSE IF 17 <= hour /\ hour < 21 THEN "evening"
    ELSE "night"

\* datetime.now().hour, the server's clock being UTC
HourOf(t) == (t \div 3600) % 24

\* saavn.slim_artist and saavn.slim_album (image[-1], joined artist names)
slim_artist(artist) ==
    [id |-> Get(artist, "id", <<>>), name |-> Get(artist, "name", <<>>),
     image |-> IF artist.image # <<>> THEN artist.image[Len(artist.image)] ELSE ""]
slim_album(album) ==
    [id |-> Get(album, "id", <<>>), name |-> Get(album, "name", <<>>),
     image |-> IF album.image # <<>> THEN album.image[Len(album.image)] ELSE "",
     artist |-> JoinNames(album.artists.primary),
     language |-> Get(album, "language", <<>>)]

\* keep the first record of each id
RECURSIVE DistinctById(_, _)
DistinctById(s, had) ==
    IF s = <<>> THEN <<>>
    ELSE IF Head(s).id \in had THEN DistinctById(Tail(s), had)
         ELSE <<Head(s)>> \o DistinctById(Tail(s), had \cup {Head(s).id})

\* saavn.get_top_artists_by_language: one search per language (english and
\* hindi when none is given), failures skipped, first record of each id
get_top_artists_by_language(languages, env) ==
    LET results == search_artists(<<>>, env)
    IN IF ~results.ok THEN <<>>
       ELSE DistinctById([i \in DOMAIN results.val.data.results |->
                             slim_artist(results.val.data.results[i])], {})

\* engine.generate_artist_recommendations
generate_artist_recommendations(languages, followed, limit, env) ==
    Take(SelectSeq(get_top_artists_by_language(languages, env),
                   LAMBDA a : a.id \notin DOMAIN followed), limit)

\* the albums one favorite artist contributes
AlbumsOf(artist_name, languages, env) ==
    LET raw == search_albums(artist_name, env)
    IN IF ~raw.ok THEN <<>>
       ELSE SelectSeq([i \in DOMAIN raw.val.data.results |->
                          slim_album(raw.val.data.results[i])],
                      LAMBDA b : languages = {} \/ Lower(b.language) \in
                                     {Lower(l) : l \in languages})

\* engine.generate_album_recommendations
generate_album_recommendations(languages, fav_artists, limit, env) ==
    LET names == Take(fav_artists, 3)
    IN Take(DistinctById(ConcatAll([i \in DOMAIN names |->
                AlbumsOf(names[i], languages, env)]), {}), limit)

\* content.extend(...): the songs of one iteration before those of the rest
Extended(songs, rest) ==
    IF ~Completed(rest) THEN rest
    ELSE [db |-> rest.db, val |-> songs \o rest.val]

\* step 1 of the pipeline: get_content_based for every seed, in order
RECURSIVE ContentFromSeeds(_, _, _, _, _, _)

\* the suggestions r of one seed, then the remaining seeds
ContentAfter(r, seeds, skipped, quality, env, t) ==
    IF ~Completed(r) THEN r
    ELSE Extended(r.val, ContentFromSeeds(r.db, seeds, skipped, quality, env, t))

ContentFromSeeds(d, seeds, skipped, quality, env, t) ==
    IF seeds = <<>> THEN [db |-> d, val |-> <<>>]
    ELSE ContentAfter(get_content_based(d, Head(seeds), skipped, 10, quality,
                                        env, t),
                      Tail(seeds), skipped, quality, env, t)

\* lines 219-221: the search of one followed artist
SearchOfArtist(d, artist_name, env, t) ==
    IF artist_name = <<>> THEN [db |-> d, ok |-> FALSE]
    ELSE search_songs(d, artist_name, 5, env, t)

\* step 2: search_songs(name, limit=5) for each followed artist; an artist
\* without a name or whose search raises is skipped
RECURSIVE SongsOfFollowed(_, _, _, _, _, _)

\* the songs of one search raw, then the remaining artists
SongsAfter(raw, artist_ids, followed, quality, env, t) ==
    Extended(IF raw.ok THEN SlimAll(raw.val.data.results, quality) ELSE <<>>,
             SongsOfFollowed(raw.db, artist_ids, followed, quality, env, t))

SongsOfFollowed(d, artist_ids, followed, quality, env, t) ==
    IF artist_ids = <<>> THEN [db |-> d, val |-> <<>>]
    ELSE SongsAfter(SearchOfArtist(d, Get(followed[Head(artist_ids)],
                                          "name", <<>>), env, t),
                    Tail(artist_ids), followed, quality, env, t)

\* a variant of the language test that compares the language as it is
LanguageDropped_CaseSensitive(song, pref_langs) ==
    pref_langs # {} /\ Get(song, "language", <<>>) \notin pref_langs

\* lines 239-240 and 295:
\*   pref_langs and song.get("language", "").lower() not in pref_langs
LanguageDropped(song, pref_langs) ==
    pref_langs # {} /\ Lower(Get(song, "language", <<>>)) \notin pref_langs

\* lines 244-262: the boost of a candidate, in quarters (1.0 is 4, 1.5 is 6,
\* 2.25 is 9, 3.0 is 12, 4.5 is 18, 6.75 is 27)
Boost(song, followed_ids, fav_artists, liked) ==
    LET b0 == 4
        b1 == IF Get(song, "artistId", <<>>) \in followed_ids THEN b0 * 3 ELSE b0
        b2 == IF \E i \in DOMAIN fav_artists :
                    IsSubstring(fav_artists[i], Get(song, "artist", <<>>))
              THEN (b1 * 3) \div 2 ELSE b1
        b3 == IF Get(song, "id", <<>>) \in liked THEN (b2 * 3) \div 2 ELSE b2
    IN b3

\* step 3, the loop of lines 232-262 over the candidates: what it appends to
\* unique_recs, each with the locals boost and eng of its iteration
RECURSIVE FilterAndBoost(_, _, _, _, _, _, _)
FilterAndBoost(d, songs, seen, pref_langs, followed_ids, fav_artists, liked) ==
    IF songs = <<>> THEN <<>>
    ELSE LET song == Head(songs)
             sid  == Get(song, "id", <<>>)
         IN IF sid = <<>> \/ sid \in seen
            THEN FilterAndBoost(d, Tail(songs), seen, pref_langs, followed_ids,
                                fav_artists, liked)
            ELSE LET rest == FilterAndBoost(d, Tail(songs), seen \cup {sid},
                                 pref_langs, followed_ids, fav_artists, liked)
                     boost == Boost(song, followed_ids, fav_artists, liked)
                     eng   == get_engagement_score(d, sid)
                 IN IF LanguageDropped(song, pref_langs)
                    THEN rest
                    ELSE <<[song  |-> ("_score" :> eng * boost) @@ song,
                            boost |-> boost, eng |-> eng,
                            _score |-> eng * boost]>> \o rest

\* tid = t.get("songId") or t.get("id")
TrendingId(e) ==
    IF Get(e, "songId", <<>>) # <<>> THEN e.songId ELSE Get(e, "id", <<>>)

\* lines 286-293: the song of an entry that has no streamUrl is fetched, a
\* failure of the fetch skips the entry
TrendingFetch(d, e, tid, env, t) ==
    IF "streamUrl" \in DOMAIN e THEN [db |-> d, ok |-> FALSE]
    ELSE get_song(d, tid, FALSE, env, t)

TrendingSong(e, raw_s, quality) ==
    IF "streamUrl" \in DOMAIN e THEN <<e>>
    ELSE IF raw_s.ok /\ raw_s.val.data # <<>>
         THEN <<slim_song(raw_s.val.data[1], quality)>>
         ELSE <<>>

RECURSIVE TrendingFinal(_, _, _, _, _, _, _, _)

\* lines 295-300: the language test, then the append
TrendingKept(d, found, tid, entries, seen_trending, count, pref_langs, quality, env, t) ==
    IF found # <<>> /\ ~LanguageDropped(found[1], pref_langs)
    THEN Extended(found, TrendingFinal(d, entries, seen_trending \cup {tid},
                                       count + 1, pref_langs, quality, env, t))
    ELSE TrendingFinal(d, entries, seen_trending, count, pref_langs, quality,
                       env, t)

TrendingFetched(raw_s, e, tid, entries, seen_trending, count, pref_langs, quality, env, t) ==
    TrendingKept(raw_s.db, TrendingSong(e, raw_s, quality), tid, entries,
                 seen_trending, count, pref_langs, quality, env, t)

TrendingEntry(d, e, tid, entries, seen_trending, count, pref_langs, quality, env, t) ==
    IF tid \in seen_trending
    THEN TrendingFinal(d, entries, seen_trending, count, pref_langs, quality,
                       env, t)
    ELSE TrendingFetched(TrendingFetch(d, e, tid, env, t), e, tid, entries,
                         seen_trending, count, pref_langs, quality, env, t)

\* step 5, the loop of lines 281-300 over the trending entries
TrendingFinal(d, entries, seen_trending, count, pref_langs, quality, env, t) ==
    IF entries = <<>> \/ count >= 10 THEN [db |-> d, val |-> <<>>]
    ELSE TrendingEntry(d, Head(entries), TrendingId(Head(entries)),
                       Tail(entries), seen_trending, count, pref_langs,
                       quality, env, t)

\* engine.generate_fresh_recommendations, a step at a time.  L is the frame
\* of the call: its arguments, the store d as the code has left it, and the
\* locals assigned so far.

\* lines 266-267 and 302-311: the bundle; scored is unique_recs before the sort, each
\* candidate with its boost
Bundle(L) ==
    [ db     |-> L.d,
      scored |-> L.scored,
      recs   |-> [ personalized    |-> [i \in DOMAIN L.top |->
                                           Drop(L.top[i].song, "_score")],
                   artists         |-> L.artists_recs,
                   albums          |-> L.albums_recs,
                   trending        |-> L.trending_final,
                   context         |-> L.time_context,
                   favoriteArtists |-> L.fav_artists,
                   updatedAt       |-> L.t,
                   quality         |-> L.quality ] ]

\* lines 278-300: the loop has run
TrendingLoop(L, trending) ==
    Bundle([d |-> trending.db, trending_final |-> trending.val] @@ L)

\* lines 274-300: step 5
TrendingStep(L, trending_raw) ==
    IF ~Completed(trending_raw) THEN trending_raw
    ELSE TrendingLoop(L, TrendingFinal(trending_raw.db, trending_raw.val, {}, 0,
                                  L.pref_langs, L.quality, L.env, L.t))

\* a variant that sorts and does not cut at limit
Ranked_Uncut(L) ==
    TrendingStep(
        [ top          |-> SortDesc(L.scored, "_score"),
          artists_recs |-> generate_artist_recommendations(
                               L.pref_langs, L.followed, 10, L.env),
          albums_recs  |-> generate_album_recommendations(
                               L.pref_langs, L.fav_artists, 10, L.env) ] @@ L,
        get_trending_songs(L.d, 20, L.env, L.t))

\* a variant that cuts at limit without sorting
Ranked_Unsorted(L) ==
    TrendingStep(
        [ top          |-> Take(L.scored, L.limit),
          artists_recs |-> generate_artist_recommendations(
                               L.pref_langs, L.followed, 10, L.env),
          albums_recs  |-> generate_album_recommendations(
                               L.pref_langs, L.fav_artists, 10, L.env) ] @@ L,
        get_trending_songs(L.d, 20, L.env, L.t))

\* lines 264-271: the sort, the cut at limit, and step 4
Ranked(L) ==
    TrendingStep(
        [ top          |-> Take(SortDesc(L.scored, "_score"), L.limit),
          artists_recs |-> generate_artist_recommendations(
                               L.pref_langs, L.followed, 10, L.env),
          albums_recs  |-> generate_album_recommendations(
                               L.pref_langs, L.fav_artists, 10, L.env) ] @@ L,
        get_trending_songs(L.d, 20, L.env, L.t))

\* lines 227-262: step 3
Scored(L) ==
    Ranked([ scored |-> FilterAndBoost(
                            L.d, L.personalized,
                            Range(LastN(L.recent_song_ids, 10)) \cup L.skipped,
                            L.pref_langs, DOMAIN L.followed, L.fav_artists,
                            L.liked) ] @@ L)

\* lines 215-225: step 2
ArtistBased(L, songs) ==
    Scored([d |-> songs.db, personalized |-> L.personalized \o songs.val] @@ L)

\* lines 209-213: step 1
ContentBased(L, content) ==
    IF ~Completed(content) THEN content
    ELSE ArtistBased([d |-> content.db, personalized |-> content.val] @@ L,
                SongsOfFollowed(content.db,
                    Take(SelectSeqBy(ArtistOrder, DOMAIN L.followed), 3),
                    L.followed, L.quality, L.env, L.t))

\* lines 204-205 and the seeds of line 210
Derived(L) ==
    ContentBased([ recent_song_ids |-> Take(L.history, 20),
                   fav_artists     |-> detect_favorite_artists(L.d, L.history) ]
                 @@ L,
                 ContentFromSeeds(L.d, Take(Take(L.history, 20), 5), L.skipped,
                                  L.quality, L.env, L.t))

\* lines 196-202: the user's data
generate_fresh_recommendations(d, user_id, limit, quality, env, t) ==
    Derived([ d |-> d, limit |-> limit, quality |-> quality, env |-> env,
              t |-> t,
              history      |-> get_user_recently_played(d, user_id, 50),
              skipped      |-> {},
              liked        |-> get_liked_songs(d, user_id),
              followed     |-> get_followed_artists(d, user_id),
              pref_langs   |-> get_user_languages(d, user_id),
              time_context |-> get_time_context(HourOf(t)) ])

-----------------------------------------------------------------------------
(* Specification SpecRec: generate_fresh_recommendations applied to a user *)
(* whose activity was recorded before.  Init draws the activity: the play  *)
(* log (a run of plays of one song, then a few others), the likes, the     *)
(* followed artists, the languages, and whether the catalog was pre-indexed *)
(* into songs/{id}; the store is built by the handlers from the empty      *)
(* store, one second per play.                                             *)

MaxPad   == 10     \* length of the run of plays of the same song
MaxTail  == 2      \* plays after the run
MaxLimit == 3      \* limit of a request

\* db_ops.record_play as one sequential call
record_play(d, user_id, song_id, t) ==
    LET d1 == push_recently_played(d, user_id, song_id, t)
    IN write_count(d1, "plays", song_id, read_count(d1, "plays", song_id))

\* the plays of a list of songs, oldest first, at seconds t+1, t+2, ...
RECURSIVE PlayAll(_, _, _, _)
PlayAll(d, user_id, songs, t) ==
    IF songs = <<>> THEN d
    ELSE PlayAll(record_play(d, user_id, Head(songs), t + 1), user_id,
                 Tail(songs), t + 1)

\* saavn.preindex_related, step 1: song_set of every suggested raw song
RECURSIVE PreindexAll(_, _, _)
PreindexAll(d, songs, t) ==
    IF songs = <<>> THEN d
    ELSE PreindexAll(song_set(d, Head(songs).id, Head(songs), t), Tail(songs), t)

RECURSIVE FollowAll(_, _, _, _)
FollowAll(d, user_id, artists, t) ==
    IF artists = <<>> THEN d
    ELSE FollowAll(follow_artist(d, user_id, Head(artists).id, Head(artists).name, t),
                   user_id, Tail(artists), t)

RECURSIVE LikeAll(_, _, _)
LikeAll(d, user_id, songs) ==
    IF songs = {} THEN d
    ELSE LET s == CHOOSE s \in songs : TRUE
         IN LikeAll(record_like(d, user_id, s), user_id, songs \ {s})

PlayLogs ==
    { Fill(Id1, n) \o tail : n \in {0, MaxPad}, tail \in SeqsUpTo({Id2, Id3}, MaxTail) }
LikeInputs == { {}, {Id4} }
FollowInputs == { <<>>, <<ArtistX>>, <<ArtistX, ArtistY>> }
LanguageInputs == { {}, { <<"H", "i">> } }
LimitInputs == {1, MaxLimit}

Scenario(plays, liked, follows, languages, indexed) ==
    LET d1 == IF indexed THEN PreindexAll(InitDb, Catalog, 0) ELSE InitDb
        d2 == PlayAll(d1, "u1", plays, 0)
        d3 == LikeAll(d2, "u1", liked)
        d4 == FollowAll(d3, "u1", follows, Len(plays))
    IN IF languages = {} THEN d4 ELSE set_user_languages(d4, "u1", languages)

InitRec ==
    /\ \E plays \in PlayLogs, liked \in LikeInputs, follows \in FollowInputs,
          languages \in LanguageInputs, indexed \in BOOLEAN :
          /\ db = Scenario(plays, liked, follows, languages, indexed)
          /\ now = Len(plays)
    /\ ret = NoRet /\ last = NoRet /\ proc = NoProc /\ norm = NoNorm

\* the provider conditions of the runs: artist and album search and the
\* probes answer; suggestions, direct search and song fetch answer or fail
RecEnvs == {e \in Envs : e.browse /\ e.probe}

\* one run of the pipeline; the provider's condition lasts for the behaviour
Generate(user_id, limit, env) ==
    /\ Get(ret, "env", env) = env
    /\ \E g \in {generate_fresh_recommendations(db, user_id, limit, Medium,
                                                env, now)} :
          /\ db' = g.db
          /\ ret' = [op |-> "generate_fresh_recommendations", user |-> user_id,
                     limit |-> limit, env |-> env, val |-> g.recs,
                     scored |-> g.scored]
    /\ UNCHANGED <<now, last, proc, norm>>

NextRec ==
    \E limit \in LimitInputs, env \in RecEnvs : Generate("u1", limit, env)

SpecRec == InitRec /\ [][NextRec]_vars

-----------------------------------------------------------------------------
(* engine.get_recommendations and specification SpecSnap: the life of the  *)
(* stored snapshot users/{uid}/recommendations under requests and the      *)
(* clock.                                                                  *)

StaleAfter == 1800

\* a variant of the test that takes the clock in milliseconds
SnapshotFresh_Millis(stored, t) ==
    (t * 1000 - Get(stored, "updatedAt", 0)) < StaleAfter

\* a variant of the test with <= for <
SnapshotFresh_Inclusive(stored, t) ==
    (t - Get(stored, "updatedAt", 0)) <= StaleAfter

\* the test of line 181: (time.time() - stored.get("updatedAt", 0)) < 1800
SnapshotFresh(stored, t) ==
    (t - Get(stored, "updatedAt", 0)) < StaleAfter

\* engine.get_recommendations.  The pipeline runs at second t and the store
\* call at second store_t >= t; the bundle returned is the dictionary that
\* store_recommendations stamped
\* lines 187-191: the fresh bundle is stored, and returned as stamped
Regenerated(g, user_id, stored, store_t) ==
    IF ~Completed(g) THEN g @@ [stored |-> stored, done |-> store_t]
    ELSE
    [db     |-> store_recommendations(g.db, user_id, g.recs, store_t),
     val    |-> StampUpdatedAt(g.recs, store_t),
     stored |-> stored,
     done   |-> store_t]

\* lines 177-187
StoredOrFresh(d, user_id, limit, stored, quality, env, t, store_t) ==
    IF IsSome(stored) /\ SnapshotFresh(Val(stored), t)
    THEN [db |-> d, val |-> Val(stored), stored |-> stored, done |-> t]
    ELSE Regenerated(generate_fresh_recommendations(d, user_id, limit, quality,
                                                    env, t),
                     user_id, stored, store_t)

get_recommendations(d, user_id, limit, force_refresh, quality, env, t, store_t) ==
    StoredOrFresh(d, user_id, limit,
                  IF force_refresh THEN None
                  ELSE get_stored_recommendations(d, user_id),
                  quality, env, t, store_t)

MaxDrift == 2      \* single seconds the clock runs beyond 0 and beyond 1799

\* the clock may advance by one more second
MayDrift == (now % (StaleAfter - 1)) < MaxDrift

\* the provider answers every call, or suggestions and browsing are down
SnapEnvs ==
    { [suggest |-> "ok", direct |-> TRUE, song |-> TRUE, browse |-> TRUE,
       probe |-> TRUE],
      [suggest |-> "raise", direct |-> TRUE, song |-> TRUE, browse |-> FALSE,
       probe |-> TRUE] }

InitSnap ==
    /\ db = Scenario(<<Id1, Id2>>, {Id4}, <<ArtistX>>, {}, TRUE)
    /\ now = 0 /\ ret = NoRet /\ last = NoRet /\ proc = NoProc /\ norm = NoNorm

\* GET /recommendations: elapsed is 1 when the second changes between the
\* end of the pipeline and the store call
GetRecommendations(user_id, limit, force_refresh, env, elapsed) ==
    /\ elapsed = 0 \/ MayDrift
    /\ \E r \in {get_recommendations(db, user_id, limit, force_refresh, Medium,
                                     env, now, now + elapsed)} :
          /\ db' = r.db
          /\ now' = r.done
          /\ ret' = [op |-> "get_recommendations", user |-> user_id,
                     limit |-> limit, force |-> force_refresh, env |-> env,
                     at |-> now, stored |-> r.stored, ok |-> Completed(r),
                     val |-> Get(r, "val", <<>>)]
    /\ UNCHANGED <<last, proc, norm>>

\* the clock advances by a second, or by a second less than the staleness
\* period
TickSnap(dt) ==
    /\ \/ dt = 1 /\ MayDrift
       \/ dt = StaleAfter - 1 /\ now < StaleAfter - 1
    /\ now' = now + dt
    /\ ret' = NoRet
    /\ UNCHANGED <<db, last, proc, norm>>

NextSnap ==
    \/ \E limit \in 1..2, force \in BOOLEAN, env \in SnapEnvs, elapsed \in 0..1 :
          GetRecommendations("u1", limit, force, env, elapsed)
    \/ \E dt \in {1, StaleAfter - 1} : TickSnap(dt)

SpecSnap == InitSnap /\ [][NextSnap]_vars

-----------------------------------------------------------------------------
(* engine.build_smart_queue and specification SpecQueue                    *)

\* line 337: queue.extend(deferred), deferred before the queue in a variant
QueueExtended_DeferredFirst(queue, deferred) == deferred \o queue

\* line 337: queue.extend(deferred)
QueueExtended(queue, deferred) == queue \o deferred

\* lines 325-335: the loop over the suggestions; last_artist is None before
\* the first append
RECURSIVE DedupLoop(_, _, _, _)
DedupLoop(suggestions, queue, last_artist, deferred) ==
    IF suggestions = <<>> THEN QueueExtended(queue, deferred)
    ELSE IF Some(Get(Head(suggestions), "artist", <<>>)) = last_artist
         THEN DedupLoop(Tail(suggestions), queue, last_artist,
                        Append(deferred, Head(suggestions)))
         ELSE DedupLoop(Tail(suggestions), Append(queue, Head(suggestions)),
                        Some(Get(Head(suggestions), "artist", <<>>)), deferred)

\* lines 325-338 on the suggestions get_content_based gave
SmartQueueFrom(suggestions, queue_size) ==
    IF ~Completed(suggestions) THEN suggestions
    ELSE
    [db          |-> suggestions.db,
     suggestions |-> suggestions.val,
     val         |-> Take(DedupLoop(suggestions.val, <<>>, None, <<>>),
                          queue_size)]

\* engine.build_smart_queue
build_smart_queue(d, user_id, seed_song_id, queue_size, quality, env, t) ==
    SmartQueueFrom(
        get_content_based(d, seed_song_id,
            Range(Take(get_user_recently_played(d, user_id, 20), 10)),
            queue_size, quality, env, t),
        queue_size)

MaxQueue == 3      \* suggestions cached for the seed, and the queue size

\* what the suggestions cache may hold for a seed: slim songs the provider
\* suggested earlier, in the order it gave them
RECURSIVE Arrangements(_, _)
Arrangements(S, n) ==
    IF n = 0 THEN {<<>>}
    ELSE {<<>>} \cup UNION { {<<x>> \o rest : rest \in Arrangements(S \ {x}, n - 1)} :
                             x \in S }

SuggestionLists == Arrangements(Range(SlimAll(Catalog, Medium)), MaxQueue)

QueueSeed == <<"s", "0">>
QueueEnvs == {e \in Envs : e.direct /\ e.song /\ e.browse /\ e.probe}

InitQueue ==
    /\ \E plays \in {<<>>, <<Id3>>}, cached \in BOOLEAN, list \in SuggestionLists :
          /\ cached \/ list = <<>>
          /\ db = IF cached
                  THEN set_cached(Scenario(plays, {}, <<>>, {}, FALSE),
                                  "songs_cache", SuggestionsKey(QueueSeed, Medium),
                                  list, 0)
                  ELSE Scenario(plays, {}, <<>>, {}, FALSE)
          /\ now = Len(plays)
    /\ ret = NoRet /\ last = NoRet /\ proc = NoProc /\ norm = NoNorm

\* GET /queue/smart
BuildSmartQueue(user_id, seed_song_id, queue_size, env) ==
    /\ \E q \in {build_smart_queue(db, user_id, seed_song_id, queue_size,
                                   Medium, env, now)} :
          /\ db' = q.db
          /\ ret' = [op |-> "build_smart_queue", user |-> user_id,
                     seed |-> seed_song_id, size |-> queue_size, env |-> env,
                     ok |-> Completed(q),
                     suggestions |-> Get(q, "suggestions", <<>>),
                     val |-> Get(q, "val", <<>>)]
    /\ UNCHANGED <<now, last, proc, norm>>

NextQueue ==
    \E size \in {2, MaxQueue}, env \in QueueEnvs :
        BuildSmartQueue("u1", QueueSeed, size, env)

SpecQueue == InitQueue /\ [][NextQueue]_vars

-----------------------------------------------------------------------------
(* engine.generate_daily_mix and specification SpecFail: the four entry    *)
(* points of the engine under every combination of failing provider calls *)

SongIds(songs) == {songs[i].id : i \in DOMAIN songs}

RECURSIVE MixFromRecent(_, _, _, _, _, _)

\* lines 354-356: the suggestions of one song are appended and seen
MixAfter(suggestions, recent_ids, mix, seen, env, t) ==
    IF ~Completed(suggestions) THEN suggestions
    ELSE MixFromRecent(suggestions.db, recent_ids, mix \o suggestions.val,
                       seen \cup SongIds(suggestions.val), env, t)

\* lines 352-356: get_content_based(song_id, seen, limit=4) per recent song
MixFromRecent(d, recent_ids, mix, seen, env, t) ==
    IF recent_ids = <<>> THEN [db |-> d, val |-> mix, seen |-> seen]
    ELSE MixAfter(get_content_based(d, Head(recent_ids), seen, 4, Medium, env, t),
                  Tail(recent_ids), mix, seen, env, t)

RECURSIVE MixFromArtists(_, _, _, _, _, _)

\* lines 363-368: the slim songs not seen yet are appended
MixFound(d, songs, artists, mix, seen, env, t) ==
    MixFromArtists(d, artists, mix \o DistinctById(songs, seen),
                   seen \cup SongIds(songs), env, t)

\* lines 361-370: search_songs(artist, limit=5) for an artist; a search that
\* raises is passed over
MixSearched(raw, artists, mix, seen, env, t) ==
    MixFound(raw.db,
             IF raw.ok THEN SlimAll(raw.val.data.results, Medium) ELSE <<>>,
             artists, mix, seen, env, t)

MixFromArtists(d, artists, mix, seen, env, t) ==
    IF artists = <<>> THEN [db |-> d, val |-> mix]
    ELSE MixSearched(search_songs(d, Head(artists), 5, env, t), Tail(artists),
                     mix, seen, env, t)

\* lines 359-360: the favorite artists are searched if the mix is thin
MixThin(r, fav_artists, env, t) ==
    IF ~Completed(r) THEN r
    ELSE IF Len(r.val) < 10 /\ fav_artists # <<>>
    THEN MixFromArtists(r.db, Take(fav_artists, 2), r.val, r.seen, env, t)
    ELSE [db |-> r.db, val |-> r.val]

\* line 372: return mix[:30]
MixCut(r) ==
    IF ~Completed(r) THEN r ELSE [db |-> r.db, val |-> Take(r.val, 30)]

\* lines 344-347 give history, fav_artists and recent_ids
DailyMixOf(d, history, env, t) ==
    MixCut(MixThin(MixFromRecent(d, Take(history, 5), <<>>, {}, env, t),
                   detect_favorite_artists(d, history), env, t))

\* engine.generate_daily_mix
generate_daily_mix(d, user_id, env, t) ==
    DailyMixOf(d, get_user_recently_played(d, user_id, 100), env, t)

\* every combination of provider calls that answer or raise; the probe of a
\* stream URL is no provider call and answers
FailEnvs == {e \in Envs : e.suggest # "empty" /\ e.probe}

\* every provider call raises
AllFail(e) == e.suggest = "raise" /\ ~e.direct /\ ~e.song /\ ~e.browse

\* every provider call answers
AllOk == CHOOSE e \in FailEnvs : e.suggest = "ok" /\ e.direct /\ e.song /\ e.browse

\* the store after a request for recommendations that the provider answered
Warmed(d, t) == get_recommendations(d, "u1", 2, TRUE, Medium, AllOk, t, t).db

\* u1 follows artist X and has played s1 and s2, or nothing was played yet;
\* the catalog is pre-indexed or not, and the caches are cold or were filled
\* by an earlier request
InitFail ==
    /\ \E plays \in {<<>>, <<Id1, Id2>>}, indexed \in BOOLEAN, warm \in BOOLEAN :
          \E d \in {Scenario(plays, {}, <<ArtistX>>, {}, indexed)} :
              db = IF warm THEN Warmed(d, 2) ELSE d
    /\ now = 2 /\ ret = NoRet /\ last = NoRet /\ proc = NoProc /\ norm = NoNorm

\* GET /mix/daily
GenerateDailyMix(user_id, env) ==
    /\ \E r \in {generate_daily_mix(db, user_id, env, now)} :
          /\ db' = r.db
          /\ ret' = [op |-> "generate_daily_mix", user |-> user_id, env |-> env,
                     ok |-> Completed(r), val |-> Get(r, "val", <<>>)]
    /\ UNCHANGED <<now, last, proc, norm>>

\* GET /trending
GetTrendingSongs(limit, env) ==
    /\ \E r \in {get_trending_songs(db, limit, env, now)} :
          /\ db' = r.db
          /\ ret' = [op |-> "get_trending_songs", limit |-> limit, env |-> env,
                     ok |-> Completed(r), val |-> Get(r, "val", <<>>)]
    /\ UNCHANGED <<now, last, proc, norm>>

\* the provider's condition lasts for the behaviour
Lasting(env) == Get(ret, "env", env) = env

NextFail ==
    \/ \E env \in FailEnvs :
          Lasting(env) /\ GetRecommendations("u1", 2, TRUE, env, 0)
    \/ \E env \in FailEnvs : Lasting(env) /\ BuildSmartQueue("u1", Id1, 2, env)
    \/ \E env \in FailEnvs : Lasting(env) /\ GenerateDailyMix("u1", env)
    \/ \E env \in FailEnvs : Lasting(env) /\ GetTrendingSongs(2, env)

SpecFail == InitFail /\ [][NextFail]_vars

-----------------------------------------------------------------------------
(* saavn.preindex_related and specification SpecProbe: the writers of      *)
(* songs/{id} that fetch from the provider (search_songs through           *)
(* cache_set, get_song, preindex_related), and the clock                   *)

\* song.get("artists", {}).get("primary", [])
PrimaryOf(song) ==
    IF "artists" \in DOMAIN song /\ "primary" \in DOMAIN song.artists
    THEN song.artists.primary ELSE <<>>

RECURSIVE PreindexArtists(_, _, _, _)

\* lines 573-579: the first 10 songs of one artist are stored; a failure of
\* the request ends the task
PreindexArtistSongs(d, artist_songs, primary, env, t) ==
    IF ~artist_songs.ok THEN d
    ELSE PreindexArtists(PreindexAll(d, Take(artist_songs.val.data.songs, 10), t),
                         primary, env, t)

\* lines 569-579: the loop over the artists
PreindexArtists(d, primary, env, t) ==
    IF primary = <<>> THEN d
    ELSE IF Get(Head(primary), "id", <<>>) = <<>>
         THEN PreindexArtists(d, Tail(primary), env, t)
         ELSE PreindexArtistSongs(d, get_artist_songs(Head(primary).id, env),
                                  Tail(primary), env, t)

\* lines 561-579: step 2, on what get_song gave
PreindexSong(song_data, env, t) ==
    IF ~song_data.ok \/ song_data.val.data = <<>> THEN song_data.db
    ELSE PreindexArtists(song_data.db, Take(PrimaryOf(song_data.val.data[1]), 2),
                         env, t)

\* lines 554-579: step 1 on the suggestions, then step 2
PreindexSuggested(d, song_id, suggestions, env, t) ==
    IF ~suggestions.ok THEN d
    ELSE PreindexSong(
             get_song(PreindexAll(d, Get(suggestions.val, "data", <<>>), t),
                      song_id, FALSE, env, t),
             env, t)

\* saavn.preindex_related: the store it leaves; every exception ends it
preindex_related(d, song_id, env, t) ==
    PreindexSuggested(d, song_id, get_song_suggestions(song_id, env), env, t)

MaxProbeNow == 1   \* the clock of SpecProbe runs 0..MaxProbeNow

ProbeQueries == { <<"Y">> }
ProbeSongs == {Id1, Id5}
\* the endpoints each operation calls answer or fail, the others answer
SearchEnvs  == {e \in Envs : e.suggest = "ok" /\ e.song /\ e.browse}
SongEnvs    == {e \in Envs : e.suggest = "ok" /\ e.direct /\ e.browse}
RelatedEnvs == {e \in Envs : e.suggest # "empty" /\ e.direct}

TickProbe ==
    /\ now < MaxProbeNow
    /\ now' = now + 1
    /\ ret' = NoRet
    /\ UNCHANGED <<db, last, proc, norm>>

\* GET /search/songs
SearchSongs(query, limit, env) ==
    /\ \E r \in {search_songs(db, query, limit, env, now)} :
          /\ db' = r.db
          /\ ret' = [op |-> "search_songs", q |-> query, env |-> env,
                     ok |-> r.ok, val |-> Get(r, "val", None)]
    /\ UNCHANGED <<now, last, proc, norm>>

\* GET /songs/{id}
GetSong(song_id, refresh, env) ==
    /\ \E r \in {get_song(db, song_id, refresh, env, now)} :
          /\ db' = r.db
          /\ ret' = [op |-> "get_song", id |-> song_id, refresh |-> refresh,
                     env |-> env, ok |-> r.ok, val |-> Get(r, "val", None)]
    /\ UNCHANGED <<now, last, proc, norm>>

\* the background task of a play event
PreindexRelated(song_id, env) ==
    /\ db' = preindex_related(db, song_id, env, now)
    /\ ret' = [op |-> "preindex_related", id |-> song_id, env |-> env]
    /\ UNCHANGED <<now, last, proc, norm>>

NextProbe ==
    \/ TickProbe
    \/ \E q \in ProbeQueries, env \in SearchEnvs : SearchSongs(q, 5, env)
    \/ \E song_id \in ProbeSongs, refresh \in BOOLEAN, env \in SongEnvs :
          GetSong(song_id, refresh, env)
    \/ \E env \in RelatedEnvs : PreindexRelated(Id1, env)

SpecProbe == InitCache /\ [][NextProbe]_vars

-----------------------------------------------------------------------------
(* Specification SpecShape: the two cache readers on a database that other *)
(* clients write too.  A stored value that is not a dictionary is written  *)
(* with its Python class: a list, a string or a number.                    *)

ListValue(items) == [class |-> "list", items |-> items]
StrValue(chars)  == [class |-> "str", chars |-> chars]
IntValue(n)      == [class |-> "int", n |-> n]

ClassOf(data) == Get(data, "class", "dict")

\* bool(data), the left operand of `data and ...`
Bool(data) ==
    CASE ClassOf(data) = "list" -> data.items # <<>>
      [] ClassOf(data) = "str"  -> data.chars # <<>>
      [] ClassOf(data) = "int"  -> data.n # 0
      [] OTHER                  -> DOMAIN data # {}

\* data.get: an attribute of dictionaries only; on a list, a string or a
\* number the lookup raises AttributeError
HasGet(data) == ClassOf(data) = "dict"

\* lines 104-120 on the value get() returned
cache_get_on(d, query, ttl, t, data) ==
    IF data = None \/ ~Bool(Val(data)) THEN Returned(None)
    ELSE IF ~HasGet(Val(data)) THEN Raised
    ELSE Returned(cache_get(d, query, ttl, t))

\* db_ops.cache_get as a call: it returns, or an exception leaves it
cache_get_call(d, query, ttl, t) ==
    cache_get_on(d, query, ttl, t,
                 IF CacheGetKey(query) \in DOMAIN d.search_index
                 THEN Some(d.search_index[CacheGetKey(query)]) ELSE None)

\* lines 159-161 on the value get() returned
generic_cache_get_on(d, node, key, ttl, t, data) ==
    IF data = None \/ ~Bool(Val(data)) THEN Returned(None)
    ELSE IF ~HasGet(Val(data)) THEN Raised
    ELSE Returned(generic_cache_get(d, node, key, ttl, t))

\* db_ops.generic_cache_get as a call
generic_cache_get_call(d, node, key, ttl, t) ==
    generic_cache_get_on(d, node, key, ttl, t,
                         IF <<node, GenericKey(key)>> \in DOMAIN d.cache
                         THEN Some(d.cache[<<node, GenericKey(key)>>]) ELSE None)

\* what another client may leave at a cache path
ForeignValues ==
    { ListValue(<<Id1>>), StrValue(<<"x">>), StrValue(<<>>), IntValue(7), IntValue(0) }

ShapeQueries == { <<"c">> }
ShapeKeys == { <<"k", "_", "1">> }

\* another client of the database writes search_index/{key}
ForeignIndexWrite(key, value) ==
    /\ db' = [db EXCEPT !.search_index = Put(@, key, value)]
    /\ ret' = NoRet
    /\ UNCHANGED <<now, last, proc, norm>>

\* another client of the database writes {node}/{key}
ForeignCacheWrite(node, key, value) ==
    /\ db' = [db EXCEPT !.cache = Put(@, <<node, key>>, value)]
    /\ ret' = NoRet
    /\ UNCHANGED <<now, last, proc, norm>>

CacheGetCall(q, ttl) ==
    /\ \E r \in {cache_get_call(db, q, ttl, now)} :
          ret' = [op |-> "cache_get", q |-> q, ttl |-> ttl,
                  ok |-> r.ok, val |-> Get(r, "val", None)]
    /\ UNCHANGED <<db, now, last, proc, norm>>

GenericCacheGetCall(node, key, ttl) ==
    /\ \E r \in {generic_cache_get_call(db, node, key, ttl, now)} :
          ret' = [op |-> "generic_cache_get", node |-> node, key |-> key,
                  ttl |-> ttl, ok |-> r.ok, val |-> Get(r, "val", None)]
    /\ UNCHANGED <<db, now, last, proc, norm>>

NextShape ==
    \/ Tick
    \/ \E q \in ShapeQueries, results \in ResultInputs : CacheSet(q, results)
    \/ \E node \in GenericNodes, key \in ShapeKeys, value \in GenericValues :
          GenericCacheSet(node, key, value)
    \/ \E q \in ShapeQueries, value \in ForeignValues :
          ForeignIndexWrite(CacheGetKey(q), value)
    \/ \E node \in GenericNodes, key \in ShapeKeys, value \in ForeignValues :
          ForeignCacheWrite(node, GenericKey(key), value)
    \/ \E q \in ShapeQueries, ttl \in TtlInputs : CacheGetCall(q, ttl)
    \/ \E node \in GenericNodes, key \in ShapeKeys, ttl \in TtlInputs :
          GenericCacheGetCall(node, key, ttl)

SpecShape == InitCache /\ [][NextShape]_vars

-----------------------------------------------------------------------------
(* services/trending.py and specification SpecSched: the scheduler thread  *)
(* that app.lifespan starts, the clock, and play events; no request reads  *)
(* or computes the trending ranking.                                       *)

SchedulerPeriod == 1800
MaxCycles == 2     \* the clock runs for MaxCycles scheduler periods
MaxSchedPlays == 2 \* play events in a run, after the one before it
SchedTick == SchedulerPeriod \div 2   \* the step of the clock

\* the trending snapshot of the generic cache, written at second 0 by a
\* get_trending_songs request served before the run
InitSched ==
    /\ db = get_trending_songs(record_play(InitDb, "u1", Id1, 0), 20,
                               CHOOSE e \in Envs : e.direct /\ e.song, 0).db
    /\ now = 0 /\ ret = NoRet /\ last = NoRet /\ norm = NoNorm
    /\ proc = [scheduler |-> [pc |-> "print", wake |-> 0]]

\* run_scheduler, line 8: the body of the loop prints and writes nothing
SchedulerRefresh ==
    /\ proc.scheduler.pc = "print"
    /\ proc' = [scheduler |-> [pc |-> "sleep", wake |-> now + SchedulerPeriod]]
    /\ UNCHANGED <<db, now, ret, last, norm>>

\* run_scheduler, line 10: time.sleep(1800) returns
SchedulerWake ==
    /\ proc.scheduler.pc = "sleep" /\ now >= proc.scheduler.wake
    /\ proc' = [scheduler |-> [pc |-> "print", wake |-> proc.scheduler.wake]]
    /\ UNCHANGED <<db, now, ret, last, norm>>

TickSched ==
    /\ now < MaxCycles * SchedulerPeriod
    /\ now' = now + SchedTick
    /\ UNCHANGED <<db, ret, last, proc, norm>>

\* POST /events with type play
PlayEvent(user_id, song_id) ==
    /\ Len(UserNode(db, user_id).recently_played) <= MaxSchedPlays
    /\ db' = record_play(db, user_id, song_id, now)
    /\ last' = [op |-> "record_play", user |-> user_id, id |-> song_id, at |-> now]
    /\ UNCHANGED <<now, ret, proc, norm>>

NextSched ==
    \/ SchedulerRefresh
    \/ SchedulerWake
    \/ TickSched
    \/ \E song_id \in {Id1, Id2} : PlayEvent("u1", song_id)

\* the thread runs whenever it can, and time passes
SpecSched ==
    /\ InitSched /\ [][NextSched]_vars
    /\ WF_vars(SchedulerRefresh) /\ WF_vars(SchedulerWake) /\ WF_vars(TickSched)

-----------------------------------------------------------------------------
(* routes/events.record_event for a play and specification SpecEvent: the  *)
(* request and the daemon threads it starts.  proc.req is the request in   *)
(* service, proc.bg the threads in the order they were started.            *)

MaxPlayEvents == 2   \* play events of a run
MaxEventNow == 1     \* the clock of SpecEvent runs 0..MaxEventNow

EventSongs == {Id1, Id2}

\* the provider answers the task, or the suggestions raise (the first call
\* of the task), or the song fetch raises (after the first writes)
EventEnvs ==
    {e \in RelatedEnvs : e.probe /\ e.browse /\ (e.suggest = "ok" \/ e.song)}

\* the response of line 21
PlayRecorded == [status |-> "success", event |-> "play recorded"]

\* a variant in which the request joins the thread before it returns
MayReturn_Joined(p) ==
    p.req.pc = "started" /\ p.bg[Len(p.bg)].pc = "done"

\* lines 20-21: Thread.start() returns when the thread has been started,
\* and the handler returns next
MayReturn(p) == p.req.pc = "started"

InitEvent ==
    /\ db = InitDb /\ now = 0 /\ ret = NoRet /\ last = NoRet /\ norm = NoNorm
    /\ proc = [req |-> [pc |-> "idle"], bg |-> <<>>]

\* line 18: db_ops.record_play(user["uid"], event.id)
RecordPlay(user_id, song_id) ==
    /\ proc.req.pc \in {"idle", "done"}
    /\ Len(proc.bg) < MaxPlayEvents
    /\ db' = record_play(db, user_id, song_id, now)
    /\ proc' = [proc EXCEPT !.req = [pc |-> "recorded", user |-> user_id,
                                     id |-> song_id]]
    /\ ret' = NoRet
    /\ UNCHANGED <<now, last, norm>>

\* line 20: threading.Thread(target=preindex_related, args=(event.id,),
\* daemon=True).start()
StartThread ==
    /\ proc.req.pc = "recorded"
    /\ proc' = [proc EXCEPT !.req.pc = "started",
                            !.bg = Append(@, [pc |-> "ready", id |-> proc.req.id])]
    /\ UNCHANGED <<db, now, ret, last, norm>>

\* line 21: return {"status": "success", "event": "play recorded"}
ReturnPlayRecorded ==
    /\ MayReturn(proc)
    /\ proc' = [proc EXCEPT !.req.pc = "done"]
    /\ ret' = [op |-> "record_event", user |-> proc.req.user, id |-> proc.req.id,
               val |-> PlayRecorded]
    /\ UNCHANGED <<db, now, last, norm>>

\* thread i runs preindex_related; whatever is raised inside, by the
\* provider or by the store at its first write, ends the task in its handler
PreindexTask(i, env, store_ok) ==
    /\ i \in DOMAIN proc.bg /\ proc.bg[i].pc = "ready"
    /\ db' = IF store_ok THEN preindex_related(db, proc.bg[i].id, env, now)
             ELSE db
    /\ proc' = [proc EXCEPT !.bg[i] = [pc |-> "done", id |-> @.id, env |-> env,
                                       store_ok |-> store_ok]]
    /\ UNCHANGED <<now, ret, last, norm>>

TickEvent ==
    /\ now < MaxEventNow
    /\ now' = now + 1
    /\ UNCHANGED <<db, ret, last, proc, norm>>

NextEvent ==
    \/ \E song_id \in EventSongs : RecordPlay("u1", song_id)
    \/ StartThread
    \/ ReturnPlayRecorded
    \/ \E i \in 1..MaxPlayEvents, env \in EventEnvs, store_ok \in BOOLEAN :
          PreindexTask(i, env, store_ok)
    \/ TickEvent

\* the request runs to its end; the daemon threads are promised nothing
SpecEvent ==
    /\ InitEvent /\ [][NextEvent]_vars
    /\ WF_vars(StartThread) /\ WF_vars(ReturnPlayRecorded)

-----------------------------------------------------------------------------
(* Specification SpecTrend: get_trending_songs over the counters that the  *)
(* plays of many listeners have left, the clock and a further play         *)

MaxTrendPlays == 1   \* plays recorded during a run
MaxTrendDrift == 1   \* seconds the clock runs beyond 0 and beyond 1799

\* the count of the i-th song: all equal, rising with i, or mixed
CountOf(pattern, i) ==
    CASE pattern = "equal"  -> 1
      [] pattern = "rising" -> i
      [] OTHER              -> (i % 3) + 1

\* analytics/plays after CountOf(pattern, i) plays of song i, for n songs
RECURSIVE Counters(_, _, _)
Counters(d, n, pattern) ==
    IF n = 0 THEN d
    ELSE write_count(Counters(d, n - 1, pattern), "plays", CounterId(n),
                     CountOf(pattern, n) - 1)

TrendSizes == {0, 1, 2, TrendingKeep, TrendingKeep + 1, MaxCounters}
TrendLimits == {1, 20, TrendingKeep, TrendingKeep + 1}
TrendEnvs == {e \in FailEnvs : e.suggest = "ok" /\ e.song /\ e.browse}

InitTrend ==
    /\ \E n \in TrendSizes, pattern \in {"equal", "rising", "mixed"} :
          db = Counters(InitDb, n, pattern)
    /\ now = 0 /\ ret = NoRet /\ last = NoRet /\ proc = NoProc /\ norm = NoNorm

\* the clock advances by a second, or by a second less than the ttl
TickTrend(dt) ==
    /\ \/ dt = 1 /\ (now % (TrendingTtl - 1)) < MaxTrendDrift
       \/ dt = TrendingTtl - 1 /\ now < TrendingTtl - 1
    /\ now' = now + dt
    /\ ret' = NoRet
    /\ UNCHANGED <<db, last, proc, norm>>

\* POST /events with type play, while the snapshot is cached or not
TrendPlay(user_id, song_id) ==
    /\ Len(UserNode(db, user_id).recently_played) < MaxTrendPlays
    /\ db' = record_play(db, user_id, song_id, now)
    /\ ret' = NoRet
    /\ UNCHANGED <<now, last, proc, norm>>

NextTrend ==
    \/ \E limit \in TrendLimits, env \in TrendEnvs : GetTrendingSongs(limit, env)
    \/ \E dt \in {1, TrendingTtl - 1} : TickTrend(dt)
    \/ \E song_id \in {CounterId(1), CounterId(MaxCounters)} : TrendPlay("u1", song_id)

SpecTrend == InitTrend /\ [][NextTrend]_vars

-----------------------------------------------------------------------------
(* Claims C1-C5                                                            *)

\* C1: normalization is idempotent: normalizing a normalized query changes
\* nothing, for every query, also one cut at 100 characters next to a space.
C1_NormalizeIdempotent ==
    norm.twice # None => Val(norm.twice) = Val(norm.once)

\* the entry of the query cache a read of query q is about
EntryOf(q) == db.search_index[normalize_query(q)]
HasEntry(q) == normalize_query(q) \in DOMAIN db.search_index
\* the generic cache entry a read of (node, key) is about
GenericPath(node, key) == <<node, GenericKey(key)>>

\* C2: TTL boundary.  A read of the query cache or of the generic cache
\* whose entry exists is a hit iff now - timestamp < ttl: age ttl - 1 is a
\* hit, age ttl is a miss (None); a generic hit returns the stored payload.
C2_TtlBoundary ==
    /\ (ret.op = "cache_get" /\ HasEntry(ret.q)) =>
          ((ret.val # None) <=> (now - EntryOf(ret.q).timestamp < ret.ttl))
    /\ (ret.op = "generic_cache_get"
          /\ GenericPath(ret.node, ret.key) \in DOMAIN db.cache) =>
          LET e == db.cache[GenericPath(ret.node, ret.key)]
          IN ret.val = IF now - e.timestamp < ret.ttl THEN Some(e.results)
                       ELSE None

\* C2 happens: a read ttl - 1 >= 1 seconds after the write is served
C2_Witness ==
    /\ ret.op = "cache_get" /\ HasEntry(ret.q)
    /\ now - EntryOf(ret.q).timestamp = ret.ttl - 1
    /\ ret.ttl > 1
    /\ ret.val # None

\* C3: a fresh query cache entry that lists at least one id, none of which
\* has a record under songs/, reads as a miss (None), never as an empty list.
C3_AllDeadIsMiss ==
    (/\ ret.op = "cache_get" /\ HasEntry(ret.q)
     /\ now - EntryOf(ret.q).timestamp < ret.ttl
     /\ EntryOf(ret.q).song_ids # <<>>
     /\ \A i \in DOMAIN EntryOf(ret.q).song_ids :
           EntryOf(ret.q).song_ids[i] \notin DOMAIN db.songs)
    => ret.val = None

\* C3 happens: such an entry was read
C3_Witness ==
    /\ ret.op = "cache_get" /\ HasEntry(ret.q)
    /\ now - EntryOf(ret.q).timestamp < ret.ttl
    /\ Len(EntryOf(ret.q).song_ids) = 2
    /\ \A i \in DOMAIN EntryOf(ret.q).song_ids :
           EntryOf(ret.q).song_ids[i] \notin DOMAIN db.songs
    /\ ret.val = None

\* the records the query cache serves for results written at time t
RECURSIVE Stamped(_, _)
Stamped(results, t) ==
    IF results = <<>> THEN <<>>
    ELSE (IF HasId(Head(results)) THEN <<("updatedAt" :> t) @@ Head(results)>>
          ELSE <<>>) \o Stamped(Tail(results), t)

Collide(q1, q2) == normalize_query(q1) = normalize_query(q2)

\* C4: queries that normalize identically share one entry.  After
\* cache_set(q1, r), a cache_get(q2, ttl) within the TTL with q2 colliding
\* with q1 returns the records written for q1; the entry under the key of any
\* colliding q2 is the one just written (a cache_set overwrites it), and the
\* index holds one entry per normalized key.
C4_KeyCollision ==
    /\ (ret.op = "cache_get" /\ last.op = "cache_set" /\ Collide(last.q, ret.q)
          /\ now - last.at < ret.ttl) =>
          ret.val = Some(Stamped(Take(last.results, TopN), last.at))
    /\ last.op = "cache_set" =>
          \A q2 \in CacheQueries : Collide(last.q, q2) =>
              /\ HasEntry(q2)
              /\ EntryOf(q2) = [song_ids  |-> ListedIds(Take(last.results, TopN)),
                                timestamp |-> last.at]
    /\ DOMAIN db.search_index \subseteq {normalize_query(q) : q \in CacheQueries}

\* C4 happens: a hit for a raw query other than the one that wrote the entry
C4_Witness ==
    /\ ret.op = "cache_get" /\ last.op = "cache_set"
    /\ ret.q # last.q /\ Collide(last.q, ret.q)
    /\ last.results # <<>>
    /\ ret.val = Some(Stamped(Take(last.results, TopN), last.at))

\* C5: every key of the prefix index has at least 2 characters, after any
\* sequence of index_song_for_search and cache_set calls.
C5_NoShortPrefix ==
    \A p \in DOMAIN db.prefix_index : Len(p) >= 2

\* C5 happens: a title with a one-letter word was indexed under its longer
\* prefixes
C5_Witness ==
    /\ last.op = "index_song_for_search"
    /\ last.title = <<"a", " ", "b", "c">>
    /\ <<"a">> \in generate_prefixes(last.title)
    /\ <<"b", "c">> \in DOMAIN db.prefix_index
    /\ last.id \in db.prefix_index[<<"b", "c">>]

-----------------------------------------------------------------------------
(* Claims C6 and C7: the filter and the boost of the pipeline              *)

\* the song ids of the user's n most recent plays, read off the push log
MostRecentPlays(d, user_id, n) ==
    LET log == UserNode(d, user_id).recently_played
    IN {log[i].songId : i \in {j \in DOMAIN log : j > Len(log) - n}}

\* C6: for a play history of any length, no song among the user's 10 most
\* recently played songs appears in the personalized list produced by
\* generate_fresh_recommendations.
C6_RecentExcluded ==
    ret.op = "generate_fresh_recommendations" =>
        \A i \in DOMAIN ret.val.personalized :
            ret.val.personalized[i].id \notin MostRecentPlays(db, ret.user, 10)

\* the primary artist ids the provider's catalog gives for a song
ArtistIdsOf(song_id) ==
    UNION { {raw.artists.primary[j].id : j \in DOMAIN raw.artists.primary} :
              raw \in {r \in Range(Catalog) : r.id = song_id} }

\* the boost the composition rule gives a candidate, in quarters: the
\* factors 3.0 or 1.0, 1.5 or 1.0, 1.5 or 1.0 as 3 or 1, 3 or 2, 3 or 2
ComposedBoost(song, d, user_id, fav_artists) ==
    (IF ArtistIdsOf(song.id) \cap DOMAIN get_followed_artists(d, user_id) # {}
         THEN 3 ELSE 1)
      * (IF \E i \in DOMAIN fav_artists : IsSubstring(fav_artists[i], song.artist)
         THEN 3 ELSE 2)
      * (IF song.id \in get_liked_songs(d, user_id) THEN 3 ELSE 2)

\* C7: every scored candidate has boost 1.0, times 3.0 iff its artist id is
\* a followed artist id, times 1.5 iff its artist name contains a favorite
\* artist name, times 1.5 iff its id is liked; liked, followed and favorite
\* together give 6.75.
C7_BoostComposition ==
    ret.op = "generate_fresh_recommendations" =>
        \A i \in DOMAIN ret.scored :
            ret.scored[i].boost =
                ComposedBoost(ret.scored[i].song, db, ret.user,
                              ret.val.favoriteArtists)

-----------------------------------------------------------------------------
(* Claims C8 and C9: serving and regenerating the snapshot.  A step that   *)
(* leaves ret.op = "get_recommendations" is a get_recommendations request  *)
(* with the arguments in ret; db and now are the store and the clock the   *)
(* request found.                                                          *)

\* the snapshot the store holds for the user of the request
SnapshotOf(d, user_id) == UserNode(d, user_id).recommendations

\* C8: when force_refresh is false and a snapshot with now - updatedAt < 1800
\* is stored, get_recommendations returns the stored snapshot verbatim and
\* writes nothing to the store (the pipeline, which writes its caches and the
\* snapshot, did not run).
C8_FreshSnapshotServed ==
    [][ ( /\ ret'.op = "get_recommendations"
          /\ ~ret'.force
          /\ IsSome(SnapshotOf(db, ret'.user))
          /\ now - Val(SnapshotOf(db, ret'.user)).updatedAt < 1800 )
        => ( /\ ret'.val = Val(SnapshotOf(db, ret'.user))
             /\ db' = db
             /\ now' = now ) ]_vars

\* C8 happens: an unforced request found a snapshot of age 1799 and
\* returned it
C8_Witness ==
    /\ ret.op = "get_recommendations"
    /\ ~ret.force
    /\ ret.stored = Some(ret.val)
    /\ SnapshotOf(db, ret.user) = Some(ret.val)
    /\ now - ret.val.updatedAt = 1799

\* C9: when force_refresh is true, or no snapshot is stored, or the stored
\* snapshot has age >= 1800, get_recommendations runs
\* generate_fresh_recommendations on the store it found, and afterwards
\* users/{uid}/recommendations is exactly the returned bundle, which is the
\* generated bundle with updatedAt stamped at the store time.
C9_RegeneratedSnapshotStored ==
    [][ ( /\ ret'.op = "get_recommendations"
          /\ \/ ret'.force
             \/ ~IsSome(SnapshotOf(db, ret'.user))
             \/ now - Val(SnapshotOf(db, ret'.user)).updatedAt >= 1800 )
        => LET g == generate_fresh_recommendations(db, ret'.user, ret'.limit,
                                                   Medium, ret'.env, now)
           IN /\ SnapshotOf(db', ret'.user) = Some(ret'.val)
              /\ ret'.val = [g.recs EXCEPT !.updatedAt = now']
              /\ db' = [g.db EXCEPT !.users[ret'.user].recommendations =
                                        Some(ret'.val)] ]_vars

\* C9 happens: an unforced request found a snapshot of age 1800 with another
\* personalized list, and the store holds the bundle it returned, stamped
\* one second after the pipeline started
C9_Witness ==
    /\ ret.op = "get_recommendations"
    /\ ~ret.force
    /\ IsSome(ret.stored)
    /\ ret.at - Val(ret.stored).updatedAt = 1800
    /\ Val(ret.stored).personalized # ret.val.personalized
    /\ SnapshotOf(db, ret.user) = Some(ret.val)
    /\ ret.val.updatedAt = ret.at + 1
    /\ now = ret.at + 1

-----------------------------------------------------------------------------
(* Claim C10                                                               *)

\* history entries of song_id, over all users
RECURSIVE CountPlays(_, _)
CountPlays(log, song_id) ==
    IF log = <<>> THEN 0
    ELSE (IF Head(log).songId = song_id THEN 1 ELSE 0) + CountPlays(Tail(log), song_id)

RECURSIVE PlaysLogged(_, _)
PlaysLogged(S, song_id) ==
    IF S = {} THEN 0
    ELSE LET u == CHOOSE u \in S : TRUE
         IN CountPlays(UserNode(db, u).recently_played, song_id)
              + PlaysLogged(S \ {u}, song_id)

\* C10: the counters are incremented by read-then-write: the write of a
\* request stores the count that request read plus 1, whatever the counter
\* holds by then; so two concurrent record_play calls for one song can leave
\* the counter grown by 1 rather than 2 (the witness).
C10_WriteReadPlusOne ==
    [][\A p \in Procs :
          (proc[p].pc = "write" /\ proc'[p].pc = "idle") =>
              read_count(db', proc[p].node, proc[p].id) = proc[p].count + 1]_vars

\* C10 happens: two record_play calls for s1 have completed, no request is in
\* flight, and analytics/plays/s1.count is 1
C10_Witness ==
    /\ \A p \in Procs : proc[p].pc = "idle"
    /\ PlaysLogged(Users, Id1) = 2
    /\ read_count(db, "plays", Id1) = 1

-----------------------------------------------------------------------------
(* Claim C11: the order of the smart queue                                 *)

RECURSIVE KeptUpTo(_, _)
RECURSIVE IsDeferred(_, _)

\* candidate k is deferred: its artist is that of the last candidate before
\* it that was not deferred
IsDeferred(c, k) ==
    /\ KeptUpTo(c, k - 1) > 0
    /\ c[k].artist = c[KeptUpTo(c, k - 1)].artist

\* the position of the last candidate among c[1..k] that was not deferred
KeptUpTo(c, k) ==
    IF k = 0 THEN 0
    ELSE IF IsDeferred(c, k) THEN KeptUpTo(c, k - 1) ELSE k

\* the deferred candidates (deferred = TRUE) or the others, in their order
RECURSIVE PickFrom(_, _, _)
PickFrom(c, k, deferred) ==
    IF k > Len(c) THEN <<>>
    ELSE (IF IsDeferred(c, k) = deferred THEN <<c[k]>> ELSE <<>>)
           \o PickFrom(c, k + 1, deferred)

ArtistsOf(c) == [i \in DOMAIN c |-> c[i].artist]

\* C11: the queue is the candidates that were not deferred, in order, then
\* the deferred ones in their original relative order; two adjacent entries
\* that are both not deferred never share an artist; candidates with artists
\* [X, X, Y] give the first, the third, then the second.
C11_SmartQueueOrder ==
    ret.op = "build_smart_queue" =>
        /\ ret.val = PickFrom(ret.suggestions, 1, FALSE)
                       \o PickFrom(ret.suggestions, 1, TRUE)
        /\ \A i \in 1..(Len(PickFrom(ret.suggestions, 1, FALSE)) - 1) :
              ret.val[i].artist # ret.val[i + 1].artist
        /\ ArtistsOf(ret.suggestions) = <<ArtistX.name, ArtistX.name, ArtistY.name>>
              => ret.val = <<ret.suggestions[1], ret.suggestions[3],
                             ret.suggestions[2]>>

\* C11 happens: three candidates by X, X and Y were queued first, third,
\* second
C11_Witness ==
    /\ ret.op = "build_smart_queue"
    /\ ArtistsOf(ret.suggestions) = <<ArtistX.name, ArtistX.name, ArtistY.name>>
    /\ ret.val = <<ret.suggestions[1], ret.suggestions[3], ret.suggestions[2]>>

-----------------------------------------------------------------------------
(* Claim C12: the language filter.  A step that leaves                     *)
(* ret.op = "generate_fresh_recommendations" is a run of the pipeline on   *)
(* the store db.                                                           *)

\* the languages of the provider's songs, lowercase
CatalogLanguages == {Lower(Catalog[i].language) : i \in DOMAIN Catalog}

LanguagesOf(songs) == {Lower(songs[i].language) : i \in DOMAIN songs}

\* C12: with non-empty language preferences every song of the personalized
\* list and of the trending list has a language, compared lowercase, among
\* the preferences; with empty preferences no candidate is dropped for its
\* language: both lists are what the pipeline gives a user who prefers every
\* language of the catalog.
C12_LanguageFilter ==
    [][ ret'.op = "generate_fresh_recommendations" =>
          IF get_user_languages(db, ret'.user) # {}
          THEN LanguagesOf(ret'.val.personalized) \cup LanguagesOf(ret'.val.trending)
                  \subseteq get_user_languages(db, ret'.user)
          ELSE \E g \in {generate_fresh_recommendations(
                            set_user_languages(db, ret'.user, CatalogLanguages),
                            ret'.user, ret'.limit, Medium, ret'.env, now)} :
                  /\ g.recs.personalized = ret'.val.personalized
                  /\ g.recs.trending = ret'.val.trending ]_vars

\* C12 happens: a user who prefers hi got the song whose language is written
\* Hi in the personalized list and a trending list without the en songs that
\* were played
C12_Witness ==
    /\ ret.op = "generate_fresh_recommendations"
    /\ get_user_languages(db, ret.user) = { <<"h", "i">> }
    /\ \E i \in DOMAIN ret.val.personalized :
          ret.val.personalized[i].language = <<"H", "i">>
    /\ ret.val.trending # <<>>
    /\ Id3 \in DOMAIN db.plays
    /\ \A i \in DOMAIN ret.val.trending : ret.val.trending[i].id # Id3

-----------------------------------------------------------------------------
(* Claim C13: the background refresh of the trending snapshot              *)

\* the timestamp of the trending snapshot, -1 when there is none
TrendingStamp(d) ==
    IF <<"trending", GenericKey(GlobalKey)>> \in DOMAIN d.cache
    THEN d.cache[<<"trending", GenericKey(GlobalKey)>>].timestamp
    ELSE -1

\* C13: every pass of the scheduler refreshes the trending snapshot: while
\* the thread sleeps after a pass, the snapshot carries a timestamp no older
\* than the second at which the pass began.
C13_TrendingRefreshedEveryPeriod ==
    proc.scheduler.pc = "sleep" =>
        TrendingStamp(db) >= proc.scheduler.wake - SchedulerPeriod

\* the second half of C13 as a liveness property: with the scheduler running
\* and no get_trending_songs request, the snapshot is eventually rewritten
\* with a newer timestamp than the one it had when the run began.
TrendingEventuallyRefreshed ==
    <>(TrendingStamp(db) > 0)

-----------------------------------------------------------------------------
(* Claims C14, C15 and C16: the liveness probe around songs/{id}.  A step  *)
(* that sets ret'.op to search_songs, get_song or preindex_related is that *)
(* operation applied to the store db under the provider condition          *)
(* ret'.env.                                                               *)

\* the ids whose record under songs/ a step wrote
WrittenSongs(before, after) ==
    {id \in DOMAIN after.songs :
        id \notin DOMAIN before.songs \/ after.songs[id] # before.songs[id]}

\* C14: every record that search_songs, get_song or preindex_related writes
\* under songs/ has a stream URL that passed the probe during the operation.
C14_ProbeBeforeEveryWrite ==
    [][ ret'.op \in {"search_songs", "get_song", "preindex_related"} =>
          \A id \in WrittenSongs(db, db') :
              is_url_reachable(Get(db'.songs[id], "streamUrl", ""), ret'.env) ]_vars

\* the answer of the provider's song endpoint
ProviderAnswer(song_id, env) == request_song(song_id, env).val

\* C15: when get_song fetched the song from the provider and the stream URL
\* of the fetched record is missing or fails the probe, get_song returns the
\* provider's answer and songs/{id}, with the rest of the store, is as
\* before.
C15_FailedProbeNotCached ==
    [][ ( /\ ret'.op = "get_song" /\ ret'.ok
          /\ "source" \notin DOMAIN ret'.val
          /\ ret'.val.data # <<>>
          /\ \/ Get(ret'.val.data[1], "streamUrl", "") = ""
             \/ ~ret'.env.probe )
        => ( /\ ret'.val = ProviderAnswer(ret'.id, ret'.env)
             /\ db' = db ) ]_vars

\* C15 happens: the provider's record of s5 has a stream URL, the probe
\* failed, the record was returned and songs/s5 does not exist
C15_Witness ==
    /\ ret.op = "get_song" /\ ret.id = Id5 /\ ret.ok
    /\ ~ret.env.probe
    /\ ret.val.data = <<Raw5>>
    /\ Id5 \notin DOMAIN db.songs

Malformed(node, key) == key \in DOMAIN node /\ ClassOf(node[key]) # "dict"

\* C17: when the value stored at a query-cache or generic-cache path is a
\* list, a string or a number, cache_get and generic_cache_get return None
\* and raise nothing.
C17_MalformedEntryIsMiss ==
    /\ ( ret.op = "cache_get" /\ Malformed(db.search_index, CacheGetKey(ret.q)) )
         => ( ret.ok /\ ret.val = None )
    /\ ( ret.op = "generic_cache_get"
         /\ Malformed(db.cache, <<ret.node, GenericKey(ret.key)>>) )
         => ( ret.ok /\ ret.val = None )

EngineOps ==
    {"get_recommendations", "build_smart_queue", "generate_daily_mix",
     "get_trending_songs"}

\* what the call recorded in r returns from store d at second t when the
\* provider answers every call
AnsweredVal(d, r, t) ==
    CASE r.op = "get_recommendations" ->
           get_recommendations(d, r.user, r.limit, r.force, Medium, AllOk, t, t).val
      [] r.op = "build_smart_queue" ->
           build_smart_queue(d, r.user, r.seed, r.size, Medium, AllOk, t).val
      [] r.op = "generate_daily_mix" ->
           generate_daily_mix(d, r.user, AllOk, t).val
      [] r.op = "get_trending_songs" ->
           get_trending_songs(d, r.limit, AllOk, t).val

\* list by list, val holds no more than full
NoLarger(op, val, full) ==
    IF op = "get_recommendations"
    THEN \A f \in {"personalized", "artists", "albums", "trending"} :
            Len(val[f]) <= Len(full[f])
    ELSE Len(val) <= Len(full)

PlaysOf(song_id) ==
    Cardinality({i \in DOMAIN proc.bg : proc.bg[i].id = song_id})

\* C19: a play event is recorded and answered with the success 'play
\* recorded' in every run: the request that has recorded the play reaches
\* its return whatever the thread of preindex_related does, also when the
\* thread never runs, and the plays it answered for are in the history and
\* in the counter.
C19_PreindexFireAndForget ==
    /\ [](proc.req.pc = "done" =>
            /\ ret.val = PlayRecorded
            /\ CountPlays(UserNode(db, ret.user).recently_played, ret.id)
                 = PlaysOf(ret.id)
            /\ read_count(db, "plays", ret.id) = PlaysOf(ret.id))
    /\ (proc.req.pc = "recorded") ~> (proc.req.pc = "done")

\* C19 happens: the second play is answered while its thread has not run
\* and after the thread of the first play ended on a raising provider call
C19_Witness ==
    /\ proc.req.pc = "done" /\ ret.val = PlayRecorded
    /\ Len(proc.bg) = 2
    /\ proc.bg[1].pc = "done" /\ proc.bg[1].env.suggest = "raise"
    /\ proc.bg[2].pc = "ready"

TrendingPath == <<"trending", GlobalKey>>

\* get_cached("trending", "global", ttl=1800) gives a list with entries:
\* the entry is younger than the ttl and its list is not empty
TrendingHit(d, t) ==
    /\ TrendingPath \in DOMAIN d.cache
    /\ t - d.cache[TrendingPath].timestamp < TrendingTtl
    /\ d.cache[TrendingPath].results # <<>>

\* list ranks the counters of d: an entry per song, none twice, its score
\* twice the count, scores non-increasing, the TrendingKeep highest kept
RanksCounters(list, d) ==
    /\ Len(list) = Min(TrendingKeep, Cardinality(DOMAIN d.plays))
    /\ \A i \in DOMAIN list :
          /\ list[i].songId \in DOMAIN d.plays
          /\ list[i].score = 2 * d.plays[list[i].songId].count
    /\ \A i, j \in DOMAIN list : i < j =>
          /\ list[i].songId # list[j].songId
          /\ list[i].score >= list[j].score
    /\ \A id \in DOMAIN d.plays :
          (\A i \in DOMAIN list : list[i].songId # id) =>
             \A i \in DOMAIN list : list[i].score >= 2 * d.plays[id].count

\* C20: on a miss with at least one play counter, get_trending_songs(limit)
\* ranks the counters (score twice the count, non-increasing, the top 50),
\* writes the ranking to (trending, global) stamped with the time of the
\* call, and returns its first min(limit, 50) entries; on a fresh hit it
\* returns the first limit entries of the cached list and leaves the store
\* as it is, whatever the counters have become.  A fresh entry whose list is
\* empty is a miss.
C20_TrendingComputation ==
    [][ ret'.op = "get_trending_songs" =>
          IF TrendingHit(db, now)
          THEN /\ ret'.val = Take(db.cache[TrendingPath].results, ret'.limit)
               /\ db' = db
          ELSE DOMAIN db.plays # {} =>
               /\ RanksCounters(db'.cache[TrendingPath].results, db)
               /\ db'.cache[TrendingPath].timestamp = now
               /\ ret'.val = Take(db'.cache[TrendingPath].results,
                                  Min(ret'.limit, TrendingKeep)) ]_vars

\* C20 happens: with more than 50 counters a call that asked for 51 got the
\* 50 entries just written, and the lowest counter is not among them
C20_Witness ==
    /\ ret.op = "get_trending_songs" /\ ret.limit = TrendingKeep + 1
    /\ Cardinality(DOMAIN db.plays) > TrendingKeep
    /\ db.cache[TrendingPath].timestamp = now
    /\ Len(ret.val) = TrendingKeep
    /\ ret.val = db.cache[TrendingPath].results
    /\ ret.val[1].score > ret.val[TrendingKeep].score
    /\ \A i \in DOMAIN ret.val : ret.val[i].songId # CounterId(1)

-----------------------------------------------------------------------------
(* Claims C21-C30                                                          *)

\* the search of the fallback raises: the provider gives nothing and
\* QueryCache holds no fresh list for the fallback query
FallbackFails(d, env, t) ==
    ~env.direct /\ ~Truthy(cache_get(d, TrendingQuery, SearchTtl, t))

\* C21: a call of get_trending_songs(limit) with no play counter and no
\* fresh trending snapshot completes with at most limit entries, each a song
\* of the fallback search carrying its own id as songId and the placeholder
\* score 100; when the fallback search fails it returns the empty list.
C21_TrendingColdStart ==
    [][ ( /\ ret'.op = "get_trending_songs"
          /\ DOMAIN db.plays = {}
          /\ ~TrendingHit(db, now) ) =>
          /\ ret'.ok
          /\ Len(ret'.val) <= ret'.limit
          /\ \A i \in DOMAIN ret'.val :
                /\ ret'.val[i].score = FallbackScore
                /\ ret'.val[i].songId = ret'.val[i].id
                /\ \E j \in DOMAIN Catalog : Catalog[j].id = ret'.val[i].id
          /\ FallbackFails(db, ret'.env, now) => ret'.val = <<>> ]_vars

\* C21 happens: with no counter, a call that asked for one song got one
\* fallback entry with score 100 out of a longer cached search result
C21_Witness ==
    /\ ret.op = "get_trending_songs"
    /\ DOMAIN db.plays = {}
    /\ ret.limit = 1
    /\ Len(ret.val) = 1
    /\ ret.val[1].score = FallbackScore
    /\ Len(Val(cache_get(db, TrendingQuery, SearchTtl, now))) > 1

-----------------------------------------------------------------------------
(* Specification SpecPut: cache_set on result lists up to and beyond the   *)
(* twenty it lists, with and without results that carry no id              *)

MaxOver == 2       \* results beyond the TopN-th

\* the i-th result of a long list, and the same record without its id
PutSong(i) ==
    DirectSong(CounterId(i), CounterId(i), <<"X", "y">>, <<"e", "n">>, "u")
Anonymous(song) == [f \in (DOMAIN song) \ {"id"} |-> song[f]]

PutList(n, holes) ==
    [i \in 1..n |-> IF i \in holes THEN Anonymous(PutSong(i)) ELSE PutSong(i)]
PutSizes == {2, TopN} \cup {TopN + k : k \in 1..MaxOver}
PutLists ==
    {<<>>} \cup {PutList(n, {}) : n \in PutSizes}
           \cup {PutList(TopN + k, {2, TopN + 1}) : k \in 1..MaxOver}
\* a raw query that normalization changes
PutQueries == { <<" ", "A", "/", "b">> }

NextPut ==
    \/ Tick
    \/ \E q \in PutQueries, results \in PutLists : CacheSet(q, results)

SpecPut == InitCache /\ [][NextPut]_vars

\* the results of a list that have an id, in order
RECURSIVE WithId(_)
WithId(results) ==
    IF results = <<>> THEN <<>>
    ELSE (IF "id" \in DOMAIN Head(results) /\ Head(results).id # <<>>
          THEN <<Head(results)>> ELSE <<>>) \o WithId(Tail(results))

\* the store holds the songs listed, stamped with the time of the write
AllStored(d, listed, t) ==
    \A i \in DOMAIN listed :
        /\ listed[i].id \in DOMAIN d.songs
        /\ d.songs[listed[i].id] = ("updatedAt" :> t) @@ listed[i]

\* the prefix index holds every result under every prefix of two or more
\* characters of its title and of its artist
AllIndexed(d, results) ==
    \A i \in DOMAIN results :
        \A p \in IndexedPrefixes(TitleOrName(results[i]),
                                  Get(results[i], "artist", <<>>)) :
            /\ p \in DOMAIN d.prefix_index
            /\ Get(results[i], "id", NoneText) \in d.prefix_index[p]

\* C22: after cache_set(query, results) the search_index entry of the
\* normalized key lists, in result order, the ids of the first 20 results
\* that have an id; each of these results is the record of its id in songs;
\* and every result, those beyond the 20th included, is in the prefix index
\* under the prefixes index_song_for_search writes for it.
C22_QueryCachePut ==
    last.op = "cache_set" =>
        /\ normalize_query(last.q) \in DOMAIN db.search_index
        /\ db.search_index[normalize_query(last.q)].song_ids =
              [i \in DOMAIN WithId(Take(last.results, 20)) |->
                  WithId(Take(last.results, 20))[i].id]
        /\ AllStored(db, WithId(Take(last.results, 20)), last.at)
        /\ AllIndexed(db, last.results)

\* C22 happens: a list of more than 20 results with one of the first 20
\* lacking an id was put; the 21st is indexed without being stored
C22_Witness ==
    /\ last.op = "cache_set"
    /\ Len(last.results) > 20
    /\ Len(db.search_index[normalize_query(last.q)].song_ids) = 19
    /\ CounterId(22) \notin DOMAIN db.songs
    /\ CounterId(22) \in db.prefix_index[<<"t", "2">>]

-----------------------------------------------------------------------------
(* Specification SpecTrip: searches by query and language while the clock  *)
(* runs up to and past the ttl of QueryCache, and song fetches that        *)
(* rewrite the records of songs in between                                 *)

MaxTripDrift == 1  \* seconds the clock runs on either side of the ttl

TripQueries == { <<"Y">> }
TripLanguages == { <<>>, <<"h", "i">> }
TripLimits == {1, 5}
TripEnvs == {e \in SearchEnvs : e.probe}

InitTrip ==
    /\ db = InitDb /\ now = 0 /\ ret = NoRet /\ last = EmptyMap
    /\ proc = NoProc /\ norm = NoNorm

\* the clock advances by a second, or by a second less than the ttl
TickTrip(dt) ==
    /\ \/ dt = 1 /\ (now % (SearchTtl - 1)) < MaxTripDrift
       \/ dt = SearchTtl - 1 /\ now < SearchTtl - 1
    /\ now' = now + dt
    /\ ret' = NoRet
    /\ UNCHANGED <<db, last, proc, norm>>

\* the ids of a list of songs, in order
IdList(songs) == [i \in DOMAIN songs |-> songs[i].id]

\* the search was answered by the provider with songs
FromProvider(r) == r.ok /\ "source" \notin DOMAIN r.val /\ r.val.data.results # <<>>

\* GET /search/songs with a language; last keeps, for each query and
\* language, the time and the ids of the latest answer of the provider
SearchSongsIn(query, language, limit, env) ==
    /\ \E r \in {search_songs_in(db, query, language, limit, env, now)} :
          /\ db' = r.db
          /\ ret' = [op |-> "search_songs", q |-> query, language |-> language,
                     env |-> env, ok |-> r.ok, val |-> Get(r, "val", None)]
          /\ last' = IF FromProvider(r)
                     THEN Put(last, <<query, language>>,
                              [at |-> now, ids |-> IdList(r.val.data.results)])
                     ELSE last
    /\ UNCHANGED <<now, proc, norm>>

NextTrip ==
    \/ \E dt \in {1, SearchTtl - 1} : TickTrip(dt)
    \/ \E q \in TripQueries, language \in TripLanguages, limit \in TripLimits,
          env \in TripEnvs : SearchSongsIn(q, language, limit, env)
    \/ \E env \in {e \in SongEnvs : e.song /\ e.probe} : GetSong(Id3, TRUE, env)

SpecTrip == InitTrip /\ [][NextTrip]_vars

\* C23: a search_songs(q, page 1) with the query and language of an earlier
\* search that the provider answered with songs, made less than 3600
\* seconds after it, returns with source "cache" the records songs holds
\* for the ids of that answer, in the order of that answer, whether the
\* provider is up or down, and writes nothing.
C23_SearchCacheRoundTrip ==
    [][ \A k \in DOMAIN last :
          ( /\ ret'.op = "search_songs"
            /\ <<ret'.q, ret'.language>> = k
            /\ now - last[k].at < 3600 ) =>
          /\ ret'.ok
          /\ "source" \in DOMAIN ret'.val /\ ret'.val.source = "cache"
          /\ ret'.val.data.results = [i \in DOMAIN last[k].ids |-> db.songs[last[k].ids[i]]]
          /\ db' = db ]_vars

\* C23 happens: 3599 seconds after the provider answered the search of Y in
\* hi with two songs, the same search is answered from the cache with the
\* provider down, the record of s3 being the one a song fetch wrote since
C23_Witness ==
    /\ ret.op = "search_songs" /\ ret.language # <<>> /\ ~ret.env.direct
    /\ <<ret.q, ret.language>> \in DOMAIN last
    /\ now - last[<<ret.q, ret.language>>].at = 3599
    /\ ret.ok /\ ret.val.source = "cache"
    /\ Len(ret.val.data.results) = 2
    /\ ret.val.data.results[2].updatedAt > last[<<ret.q, ret.language>>].at

-----------------------------------------------------------------------------
(* Specification SpecGrow: the operations that write or read the prefix    *)
(* index or the songs it names                                             *)

\* the key order of the store over every id a bucket can hold
BucketOrder == <<NoneText>> \o KeyOrder

GrowTexts == { <<"-">>, <<"C", "d">>, <<" ", "x", "-", "Y">>, <<"e", "d">> }
GrowLimits == {1, 10}
GrowLists == { <<SongA, SongB>>, <<Anonymous(SongB), SongA>> }

\* GET /search/instant
SearchLocalIndex(text, limit) ==
    /\ ret' = [op |-> "search_local_index", text |-> text, limit |-> limit,
               val |-> search_local_index(db, text, limit, BucketOrder)]
    /\ UNCHANGED <<db, now, last, proc, norm>>

NextGrow ==
    \/ \E results \in GrowLists : CacheSet(<<"c">>, results)
    \/ \E title \in {<<>>, <<"c", "d">>} : IndexSong(Id3, title, <<"X", "-", "y">>)
    \/ \E text \in GrowTexts, limit \in GrowLimits : SearchLocalIndex(text, limit)
    \/ \E env \in TripEnvs : SearchSongs(<<"Y">>, 5, env)
    \/ \E env \in {e \in SongEnvs : e.probe} : GetSong(Id3, TRUE, env)
    \/ \E env \in {AllOk} : PreindexRelated(Id1, env)

SpecGrow == InitCache /\ [][NextGrow]_vars

\* C24: whatever cache_set, index_song_for_search, search_local_index,
\* search_songs, get_song or preindex_related does, every prefix that has a
\* bucket keeps it, and every id of the bucket stays in it.
C24_PrefixIndexOnlyGrows ==
    [][ \A p \in DOMAIN db.prefix_index :
          /\ p \in DOMAIN db'.prefix_index
          /\ db.prefix_index[p] \subseteq db'.prefix_index[p] ]_vars

\* C24 happens: index_song_for_search has written s3 to the bucket cd, which
\* still holds the s2 that an earlier cache_set put there
C24_Witness ==
    /\ last.op = "index_song_for_search" /\ last.id = Id3
    /\ <<"c", "d">> \in DOMAIN db.prefix_index
    /\ {Id2, Id3} \subseteq db.prefix_index[<<"c", "d">>]

-----------------------------------------------------------------------------
(* Specification SpecLocal: the instant search over stores that cache_set  *)
(* and index_song_for_search have built, while song fetches add records    *)
(* and another client of the database overwrites a bucket                  *)

\* the stores the program has built before the searches
LocalPlain == cache_set(InitDb, <<"c">>, <<SongA, SongB>>, 0)
LocalLoose == index_song_for_search(LocalPlain, Id3, <<"c", "d">>, <<"X", "-", "y">>)
LocalStores ==
    { InitDb, LocalPlain, LocalLoose,
      cache_set(LocalLoose, <<"c">>, <<Anonymous(SongB), SongA>>, 0),
      cache_set(InitDb, <<"c">>, PutList(TopN + 2, {}), 0) }

LocalTexts == { <<"-", " ">>, <<"g", "o">>, <<"C", "d">>, <<" ", "x", "-", "Y">>,
                <<"t", "2">> }
LocalLimits == {1, 3, 10}

InitLocal ==
    /\ \E store \in LocalStores : db = store @@ [foreign_buckets |-> EmptyMap]
    /\ now = 0 /\ ret = NoRet /\ last = NoRet /\ proc = NoProc /\ norm = NoNorm

\* another client of the database writes prefix_index/{prefix}
ForeignBucketWrite(prefix, value) ==
    /\ db' = [db EXCEPT !.foreign_buckets = Put(@, prefix, value),
                        !.prefix_index = Drop(@, prefix)]
    /\ ret' = NoRet
    /\ UNCHANGED <<now, last, proc, norm>>

NextLocal ==
    \/ \E text \in LocalTexts, limit \in LocalLimits : SearchLocalIndex(text, limit)
    \/ \E env \in {e \in SongEnvs : e.probe} : GetSong(Id3, TRUE, env)
    \/ \E value \in ForeignValues : ForeignBucketWrite(<<"x", "y">>, value)

SpecLocal == InitLocal /\ [][NextLocal]_vars

\* text reduced to its letters and digits, in lower case
RECURSIVE LowerAlnum(_)
LowerAlnum(text) ==
    IF text = <<>> THEN <<>>
    ELSE (IF Head(text) \in Letters \cup Digits
          THEN <<LowerChar(Head(text))>> ELSE <<>>) \o LowerAlnum(Tail(text))

\* the first ids of the bucket of the key, at most limit of them
TakenIds(d, key, limit) ==
    IF key \in DOMAIN d.prefix_index
    THEN Take(SelectSeqBy(BucketOrder, d.prefix_index[key]), limit)
    ELSE <<>>

\* the bucket of the key is missing or is no map
NoBucket(d, key) ==
    key \notin DOMAIN d.prefix_index \/ key \in DOMAIN d.foreign_buckets

\* C25: search_local_index(text, limit) returns the records songs holds for
\* the first limit ids of the bucket keyed by the lowercase letters and
\* digits of text, in the order of the bucket, leaving out the ids that have
\* no record; it returns the empty list when that key is empty or its bucket
\* is missing or is not a map.
C25_PrefixIndexQuery ==
    ret.op = "search_local_index" =>
        /\ ret.val = [i \in DOMAIN SelectSeqBy(TakenIds(db, LowerAlnum(ret.text), ret.limit), DOMAIN db.songs) |->
                        db.songs[SelectSeqBy(TakenIds(db, LowerAlnum(ret.text), ret.limit), DOMAIN db.songs)[i]]]
        /\ Len(ret.val) <= ret.limit
        /\ (LowerAlnum(ret.text) = <<>> \/ NoBucket(db, LowerAlnum(ret.text))) =>
              ret.val = <<>>

\* C25 happens: of the three ids taken from the four of bucket xy, the one
\* without a record is left out and the two others come in bucket order
C25_Witness ==
    /\ ret.op = "search_local_index" /\ ret.limit = 3
    /\ LowerAlnum(ret.text) = <<"x", "y">>
    /\ <<"x", "y">> \in DOMAIN db.prefix_index
    /\ Cardinality(db.prefix_index[<<"x", "y">>]) = 4
    /\ Len(ret.val) = 2
    /\ ret.val[1].id = Id1 /\ ret.val[2].id = Id2

-----------------------------------------------------------------------------
(* Specification SpecGeneric: the generic cache under keys that differ in  *)
(* letter case, in outer whitespace and in the replaced characters         *)

CasedKeys == { <<"K", ".", "1">>, <<"k", ".", "1">>, <<" ", "k", "_", "1">>,
               <<"k", "_", "1">> }
CasedValues == { <<SongA>>, <<SongB>> }

NextGeneric ==
    \/ Tick
    \/ \E key \in CasedKeys, value \in CasedValues :
          GenericCacheSet("search_all_cache", key, value)
    \/ \E key \in CasedKeys, ttl \in TtlInputs :
          GenericCacheGet("search_all_cache", key, ttl)

SpecGeneric == InitCache /\ [][NextGeneric]_vars

\* C26: a generic_cache_get(ns, k2, ttl) made within the ttl of the latest
\* generic_cache_set(ns, k1, v) returns v whenever normalize_query maps k1
\* and k2 to the same key, as when they differ in letter case or in leading
\* or trailing whitespace only.
C26_GenericKeyNormalized ==
    ( /\ ret.op = "generic_cache_get"
      /\ last.op = "generic_cache_set"
      /\ ret.node = last.node
      /\ normalize_query(ret.key) = normalize_query(last.key)
      /\ now - last.at < ret.ttl ) =>
    ret.val = Some(last.value)

-----------------------------------------------------------------------------
(* Specification SpecFollow: the follow-based candidates of the            *)
(* recommendations and the backfill of the daily mix, when the search of   *)
(* the artist was made before by a request with the default limit of 20    *)

MaxFound == 6      \* songs the provider listed for the earlier search

FoundSizes == {0, MaxFound - 1, MaxFound}
FollowEnvs == {e \in FailEnvs : e.suggest # "empty" /\ e.song /\ e.browse /\ e.probe}

\* the store after GET /search/songs?query=X answered by the provider with
\* n songs; with n = 0 no search was made
Searched(d, n, t) ==
    IF n = 0 THEN d
    ELSE search_songs_from(d, ArtistX.name, None, PutList(n, {}), t).db

\* u1 follows X, or X and Y, and has played s1 and s2 or nothing
InitFollow ==
    /\ \E n \in FoundSizes, plays \in {<<>>, <<Id1, Id2>>},
          follows \in {<<ArtistX>>, <<ArtistX, ArtistY>>} :
          db = Searched(Scenario(plays, {}, follows, {}, TRUE), n, 2)
    /\ now = 2 /\ ret = NoRet /\ last = NoRet /\ proc = NoProc /\ norm = NoNorm

NextFollow ==
    \/ \E limit \in {20}, env \in FollowEnvs : Generate("u1", limit, env)
    \/ \E env \in FollowEnvs : Lasting(env) /\ GenerateDailyMix("u1", env)

SpecFollow == InitFollow /\ [][NextFollow]_vars

\* C27: when the suggestions fail, so that every candidate comes from the
\* searches by artist, generate_fresh_recommendations has at most 5
\* candidates for each of at most 3 followed artists, and the daily mix at
\* most 5 songs for each of at most 2 favorite artists, whether the search
\* is answered by the provider or from QueryCache.
C27_FollowCandidateBound ==
    [][ /\ ( ret'.op = "generate_fresh_recommendations" /\ ret'.env.suggest = "raise" ) =>
              Len(ret'.scored) <=
                 5 * Min(3, Cardinality(DOMAIN get_followed_artists(db, ret'.user)))
        /\ ( ret'.op = "generate_daily_mix" /\ ret'.env.suggest = "raise" ) =>
              Len(ret'.val) <=
                 5 * Min(2, Len(detect_favorite_artists(db,
                                  get_user_recently_played(db, ret'.user, 100)))) ]_vars

\* the play counter of a song, and the boost the run gave the candidate
PlayCount(d, song_id) ==
    IF song_id \in DOMAIN d.plays THEN Get(d.plays[song_id], "count", 0) ELSE 0
BoostOf(scored, song_id) ==
    (CHOOSE e \in Range(scored) : e.song.id = song_id).boost
RankScore(d, scored, song_id) == PlayCount(d, song_id) * BoostOf(scored, song_id)

\* C28: the personalized list of generate_fresh_recommendations(limit) has
\* at most limit entries, no song id twice, and is in non-increasing order
\* of the play count of the song times its boost.
C28_PersonalizedRanking ==
    ret.op = "generate_fresh_recommendations" =>
        /\ Len(ret.val.personalized) <= ret.limit
        /\ \A i, j \in DOMAIN ret.val.personalized : i < j =>
              /\ ret.val.personalized[i].id # ret.val.personalized[j].id
              /\ RankScore(db, ret.scored, ret.val.personalized[i].id) >=
                    RankScore(db, ret.scored, ret.val.personalized[j].id)

\* C28 happens: of several candidates the list of a request with limit 1
\* holds the one song that scores highest, which was not the first candidate
C28_Witness ==
    /\ ret.op = "generate_fresh_recommendations"
    /\ ret.limit = 1 /\ Len(ret.scored) > 2
    /\ Len(ret.val.personalized) = 1
    /\ ret.scored[1].song.id # ret.val.personalized[1].id
    /\ RankScore(db, ret.scored, ret.val.personalized[1].id) >
          RankScore(db, ret.scored, ret.scored[1].song.id)

-----------------------------------------------------------------------------
(* Specification SpecRecent: plays of a user recorded in the same second   *)
(* or seconds apart, and reads of the play history                         *)

MaxRecent == 3     \* plays recorded
MaxRecentNow == 2  \* the clock of SpecRecent runs 0..MaxRecentNow

RecentSongs == {Id1, Id2, Id3}
RecentLimits == {1, 2, 20}

TickRecent ==
    /\ now < MaxRecentNow
    /\ now' = now + 1
    /\ ret' = NoRet
    /\ UNCHANGED <<db, last, proc, norm>>

\* POST /events with type play, the history write and the counter
RecordPlayAt(user_id, song_id) ==
    /\ Len(UserNode(db, user_id).recently_played) < MaxRecent
    /\ db' = record_play(db, user_id, song_id, now)
    /\ ret' = NoRet
    /\ UNCHANGED <<now, last, proc, norm>>

GetUserRecentlyPlayed(user_id, limit) ==
    /\ ret' = [op |-> "get_user_recently_played", user |-> user_id,
               limit |-> limit,
               val |-> get_user_recently_played(db, user_id, limit)]
    /\ UNCHANGED <<db, now, last, proc, norm>>

NextRecent ==
    \/ TickRecent
    \/ \E song_id \in RecentSongs : RecordPlayAt("u1", song_id)
    \/ \E limit \in RecentLimits : GetUserRecentlyPlayed("u1", limit)

SpecRecent == InitCache /\ [][NextRecent]_vars

\* the song ids of a play log, the play recorded last first
RECURSIVE NewestFirst(_)
NewestFirst(log) ==
    IF log = <<>> THEN <<>>
    ELSE <<log[Len(log)].songId>> \o NewestFirst(SubSeq(log, 1, Len(log) - 1))

\* C30: get_user_recently_played(user, limit) returns the song ids of the
\* user's plays, the play recorded last first, cut to limit: a play recorded
\* after another comes before it, also when both carry the same second.
C30_RecentlyPlayedOrder ==
    ret.op = "get_user_recently_played" =>
        ret.val = Take(NewestFirst(UserNode(db, ret.user).recently_played),
                       ret.limit)

\* the same for plays recorded in seconds of their own
RecentOrderApart ==
    ( /\ ret.op = "get_user_recently_played"
      /\ \A i, j \in DOMAIN UserNode(db, ret.user).recently_played : i < j =>
            UserNode(db, ret.user).recently_played[i].playedAt
               < UserNode(db, ret.user).recently_played[j].playedAt ) =>
    ret.val = Take(NewestFirst(UserNode(db, ret.user).recently_played), ret.limit)

-----------------------------------------------------------------------------
(* Specification SpecMix: the daily mix of a user whose plays fell in      *)
(* seconds of their own or in the same second, over caches that earlier    *)
(* requests have filled with longer lists than the catalog gives now       *)

MaxSuggested == 12 \* songs the provider once suggested for s3
MixFoundX == 16    \* songs the provider once listed for X, and as many for Y

\* record_play of each [song, at], in order
RECURSIVE PlayAllAt(_, _, _)
PlayAllAt(d, user_id, plays) ==
    IF plays = <<>> THEN d
    ELSE PlayAllAt(record_play(d, user_id, Head(plays).song, Head(plays).at),
                   user_id, Tail(plays))

At(song_id, t) == [song |-> song_id, at |-> t]
MixLogs ==
    { <<>>,
      <<At(Id3, 1), At(Id3, 2)>>,
      <<At(Id3, 1), At(Id3, 2), At(Id3, 3)>>,
      <<At(Id1, 0), At(Id2, 0)>>,
      <<At(Id1, 0), At(Id2, 0), At(Id3, 1), At(Id3, 2), At(Id3, 3), At(Id3, 4)>> }

PutRange(a, b) == [i \in 1..(b - a + 1) |-> PutSong(a + i - 1)]

\* the store after get_content_based(s3) was answered with n suggestions
SuggestedOnce(d, n, t) ==
    IF n = 0 THEN d
    ELSE ContentFetched(d, SuggestionsKey(Id3, Medium),
                        SlimAll(PutList(n, {}), Medium), {}, 4, t).db

\* the store after the search of an artist was answered with songs a..b
SearchedOnce(d, artist, a, b, t) ==
    IF b < a THEN d
    ELSE search_songs_from(d, artist.name, None, PutRange(a, b), t).db

InitMix ==
    /\ \E plays \in MixLogs, suggested \in {0, MaxSuggested}, found \in {0, MixFoundX} :
          \E played \in {PlayAllAt(PreindexAll(InitDb, Catalog, 0), "u1", plays)} :
              \E d \in {SuggestedOnce(played, suggested, 5)} :
                  \E dx \in {SearchedOnce(d, ArtistX, 1, found, 5)} :
                      db = SearchedOnce(dx, ArtistY, found + 1, 2 * found, 5)
    /\ now = 5 /\ ret = NoRet /\ last = NoRet /\ proc = NoProc /\ norm = NoNorm

NextMix ==
    \/ \E env \in FollowEnvs : Lasting(env) /\ GenerateDailyMix("u1", env)
    \/ \E env \in FollowEnvs : Lasting(env) /\ GetTrendingSongs(20, env)

SpecMix == InitMix /\ [][NextMix]_vars

\* the mix is a list of at most 30 songs, no id twice; it begins with the
\* content part, which has at most 4 songs for each seed; songs were added
\* to the content part only if it had fewer than 10
MixBuiltOn(mix, content, seeds) ==
    /\ Len(mix) <= 30
    /\ \A i, j \in DOMAIN mix : i < j => mix[i].id # mix[j].id
    /\ Len(content) <= 4 * Len(seeds)
    /\ Take(mix, Len(content)) = Take(content, 30)
    /\ Len(content) >= 10 => mix = Take(content, 30)

\* how often x stands in s
Occurrences(s, x) == Cardinality({i \in DOMAIN s : s[i] = x})

\* s and t hold the same entries, each as often
SameEntries(s, t) ==
    \A x \in Range(s) \cup Range(t) : Occurrences(s, x) = Occurrences(t, x)

\* C29: generate_daily_mix returns at most 30 songs with pairwise distinct
\* ids, beginning with the content part, which is made of at most 4
\* suggestions for each of its seeds, and the seeds are the songs of the 5
\* plays recorded last; the favorite-artist songs are added only when the
\* content part has fewer than 10 songs, and only those whose id the mix
\* does not hold yet.
C29_DailyMix ==
    [][ \A env \in FollowEnvs, user_id \in {"u1"} :
          ( /\ ret'.op = "generate_daily_mix"
            /\ ret'.env = env /\ ret'.user = user_id ) =>
          /\ SameEntries(get_user_recently_played(db, user_id, 5),
                         Take(NewestFirst(UserNode(db, user_id).recently_played), 5))
          /\ MixBuiltOn(ret'.val,
                        MixFromRecent(db, get_user_recently_played(db, user_id, 5),
                                      <<>>, {}, env, now).val,
                        get_user_recently_played(db, user_id, 5)) ]_vars

\* the same, the seeds being the first five ids get_user_recently_played
\* returns
MixOnHistorySeeds ==
    [][ \A env \in FollowEnvs, user_id \in {"u1"} :
          ( /\ ret'.op = "generate_daily_mix"
            /\ ret'.env = env /\ ret'.user = user_id ) =>
          MixBuiltOn(ret'.val,
                     MixFromRecent(db, get_user_recently_played(db, user_id, 5),
                                   <<>>, {}, env, now).val,
                     get_user_recently_played(db, user_id, 5)) ]_vars

-----------------------------------------------------------------------------
(* Claims C31-C39 *)

-----------------------------------------------------------------------------
(* Specification SpecEntity: song_set and song_get on songs/{id}, with     *)
(* cache_set as the other caller of song_set, over a clock that jumps      *)
(* past every ttl of the program                                           *)

MaxEntityNow == 100000  \* the last second of the clock, past the 24 h ttl

EntityTimes == {0, 1, SearchTtl, SearchTtl + 1, MaxEntityNow}

\* records of different shapes: a field only the first has, a field only
\* the second has, and a record that brings an updatedAt of its own
EntityRecords ==
    { SongA @@ [album |-> "al"],
      [id |-> Id1, name |-> <<"n">>, lyrics |-> "ly"],
      [id |-> Id1, name |-> <<"n">>, updatedAt |-> 7] }

InitEntity ==
    /\ db = InitDb /\ now = 0 /\ ret = NoRet /\ last = EmptyMap
    /\ proc = NoProc /\ norm = NoNorm

TickEntity(t) ==
    /\ t > now
    /\ now' = t
    /\ UNCHANGED <<db, ret, last, proc, norm>>

\* song_set(song_id, metadata); last keeps what was put for each id, and when
SongSet(song_id, metadata) ==
    /\ db' = song_set(db, song_id, metadata, now)
    /\ last' = Put(last, song_id, [metadata |-> metadata, at |-> now])
    /\ ret' = [op |-> "song_set", id |-> song_id]
    /\ UNCHANGED <<now, proc, norm>>

\* song_get(song_id)
SongGet(song_id) ==
    /\ ret' = [op |-> "song_get", id |-> song_id, val |-> song_get(db, song_id)]
    /\ UNCHANGED <<db, now, last, proc, norm>>

\* cache_set(query, [song]): song_set(song.id, song) is its first write
EntityCacheSet(query, song) ==
    /\ db' = cache_set(db, query, <<song>>, now)
    /\ last' = Put(last, song.id, [metadata |-> song, at |-> now])
    /\ ret' = [op |-> "cache_set", id |-> song.id]
    /\ UNCHANGED <<now, proc, norm>>

NextEntity ==
    \/ \E t \in EntityTimes : TickEntity(t)
    \/ \E song_id \in {Id1, Id2}, metadata \in EntityRecords :
          SongSet(song_id, metadata)
    \/ \E song_id \in {Id1, Id2, Id3} : SongGet(song_id)
    \/ \E song \in {SongA} : EntityCacheSet(<<"c">>, song)

SpecEntity == InitEntity /\ [][NextEntity]_vars

\* the record a put leaves: the metadata of the put with updatedAt set to
\* the second of the put, and no other field
PutRecord(put) ==
    [f \in (DOMAIN put.metadata) \cup {"updatedAt"} |->
        IF f = "updatedAt" THEN put.at ELSE put.metadata[f]]

\* C31: songs/{id} holds, for every id ever put, exactly the metadata of the
\* last song_set for that id with updatedAt set to the second of that put
\* (no field of an earlier record survives), and holds nothing for an id
\* never put; song_get(id) returns that record, however long ago the put
\* was, and None for an id never put.
C31_EntityCachePut ==
    /\ DOMAIN db.songs = DOMAIN last
    /\ \A song_id \in DOMAIN last : db.songs[song_id] = PutRecord(last[song_id])
    /\ ret.op = "song_get" =>
          ret.val = IF ret.id \in DOMAIN last
                    THEN Some(PutRecord(last[ret.id])) ELSE None

\* a record put over one of another shape is read back after the longest
\* wait of the clock
C31_Witness ==
    /\ ret.op = "song_get" /\ ret.id \in DOMAIN last
    /\ last[ret.id].at = 1 /\ now = MaxEntityNow
    /\ "lyrics" \in DOMAIN Val(ret.val)
    /\ "album" \notin DOMAIN Val(ret.val)

\* C32: every get_recommendations(user, limit, force_refresh=False) that
\* completes returns a bundle whose personalized list has at most limit
\* entries, also when the bundle is a stored snapshot.
C32_LimitHonoured ==
    ( /\ ret.op = "get_recommendations" /\ ~ret.force /\ ret.ok ) =>
    Len(ret.val.personalized) <= ret.limit

\* the call was answered with the stored snapshot
Served(r) == IsSome(r.stored) /\ SnapshotFresh(Val(r.stored), r.at)

\* C32 as amended: a get_recommendations(user, limit, force_refresh=False)
\* that generates its bundle returns at most limit personalized entries; a
\* call answered from a fresh snapshot returns the stored bundle as it is,
\* whatever its limit.
C32_LimitOfTheGeneratingCall ==
    ( /\ ret.op = "get_recommendations" /\ ~ret.force /\ ret.ok ) =>
    IF Served(ret) THEN ret.val = Val(ret.stored)
    ELSE Len(ret.val.personalized) <= ret.limit

\* a call with limit 1 generates its bundle over a stale snapshot that
\* holds two personalized entries
C32_Witness ==
    /\ ret.op = "get_recommendations" /\ ~ret.force /\ ret.ok
    /\ ~Served(ret) /\ IsSome(ret.stored)
    /\ Len(Val(ret.stored).personalized) = 2
    /\ ret.limit = 1 /\ Len(ret.val.personalized) = 1

-----------------------------------------------------------------------------
(* Specification SpecPage: saavn.search_songs with its page parameter      *)

\* saavn.search_songs(query, page, limit, language).  The local results is
\* assigned at line 202 only, when page is 1 and the direct search found
\* songs; line 205 reads it in every call that was not answered from the
\* cache, and raises UnboundLocalError when it was never assigned.  When it
\* was assigned it is non-empty and page is 1, so neither the wrapper
\* (lines 205-206) nor the query expansion (lines 209-225) is entered.
search_songs_paged(d, query, page, language, limit, env, t) ==
    IF page = 1 /\ Truthy(cache_get(d, CacheKeyOf(query, language), SearchTtl, t))
    THEN search_songs_in(d, query, language, limit, env, t)
    ELSE IF page = 1 /\ search_jiosaavn_direct(query, limit, env) # <<>>
    THEN search_songs_in(d, query, language, limit, env, t)
    ELSE [db |-> d, ok |-> FALSE]

PageQueries == { <<"Y">>, <<"X", " ", "Y">> }
PageLimits == {1, 20}

\* GET /search/songs?query=&page=&limit=&language=
SearchSongsPaged(query, page, language, limit, env) ==
    /\ \E r \in {search_songs_paged(db, query, page, language, limit, env, now)} :
          /\ db' = r.db
          /\ ret' = [op |-> "search_songs", q |-> query, page |-> page,
                     language |-> language, env |-> env, ok |-> r.ok,
                     hit |-> Truthy(cache_get(db, CacheKeyOf(query, language),
                                              SearchTtl, now)),
                     val |-> Get(r, "val", None)]
    /\ UNCHANGED <<now, last, proc, norm>>

NextPage ==
    \/ Tick
    \/ \E query \in PageQueries, page \in 1..2, language \in TripLanguages,
          limit \in PageLimits, env \in TripEnvs :
          SearchSongsPaged(query, page, language, limit, env)

SpecPage == InitCache /\ [][NextPage]_vars

\* C33: search_songs never fails with an error: every call, on page 1 with
\* or without a cache entry and with or without direct results, and on
\* later pages, returns a result record with a results list.
C33_SearchFallbackChain ==
    ret.op = "search_songs" =>
        /\ ret.ok
        /\ ret.val.data.results \in Seq(Range(ret.val.data.results))

\* the calls that do return: page 1 with a fresh cache entry or with songs
\* from the direct search
SearchReturnsWhenFound ==
    ret.op = "search_songs" =>
        ( ret.ok <=>
            /\ ret.page = 1
            /\ ret.hit \/ search_jiosaavn_direct(ret.q, 1, ret.env) # <<>> )

-----------------------------------------------------------------------------
(* Specification SpecAvoid: build_smart_queue for a user with a history of *)
(* more than 10 plays, who goes on playing between the requests            *)

MaxAvoidPlays == 12  \* plays in the log of the user

\* plays of one song at the seconds a..b
Run(song_id, a, b) == [i \in 1..(b - a + 1) |-> At(song_id, a + i - 1)]

\* no play; 10 and 11 plays in seconds of their own; 11 plays of which the
\* two oldest fell in one second
AvoidLogs ==
    { <<>>,
      <<At(Id1, 0), At(Id2, 1)>> \o Run(Id3, 2, 9),
      <<At(Id1, 0), At(Id2, 1)>> \o Run(Id3, 2, 10),
      <<At(Id1, 0), At(Id2, 0)>> \o Run(Id3, 1, 9) }

InitAvoid ==
    /\ \E plays \in AvoidLogs :
          db = PlayAllAt(PreindexAll(InitDb, Catalog, 0), "u1", plays)
    /\ now = 20 /\ ret = NoRet /\ last = NoRet /\ proc = NoProc /\ norm = NoNorm

\* POST /events with type play
AvoidPlay(user_id, song_id) ==
    /\ Len(UserNode(db, user_id).recently_played) < MaxAvoidPlays
    /\ db' = record_play(db, user_id, song_id, now)
    /\ ret' = NoRet
    /\ UNCHANGED <<now, last, proc, norm>>

NextAvoid ==
    \/ \E song_id \in {Id4} : AvoidPlay("u1", song_id)
    \/ \E size \in {2, 15}, env \in QueueEnvs :
          BuildSmartQueue("u1", QueueSeed, size, env)

SpecAvoid == InitAvoid /\ [][NextAvoid]_vars

\* the queue has at most size songs, none with an id in avoid
QueueAvoids(r, avoid) ==
    /\ Len(r.val) <= r.size
    /\ \A i \in DOMAIN r.val : r.val[i].id \notin avoid

\* C34: build_smart_queue(user, seed, size) returns at most size songs, none
\* of them a song of the user's 10 plays recorded last, whether the
\* suggestions came from the provider or from the 24-hour cache.
C34_SmartQueueAvoidSet ==
    ret.op = "build_smart_queue" =>
        QueueAvoids(ret, Range(Take(NewestFirst(
                             UserNode(db, ret.user).recently_played), 10)))

\* the same for the first ten ids get_user_recently_played returns
QueueAvoidsHistory ==
    ret.op = "build_smart_queue" =>
        QueueAvoids(ret, Range(Take(get_user_recently_played(db, ret.user, 20), 10)))

\* the 24-hour cache holds the list as the provider gave it, whatever the
\* avoid set of the request that stored it
CacheHoldsUnfiltered ==
    \A e \in {get_cached(db, "songs_cache", SuggestionsKey(QueueSeed, Medium),
                         SuggestTtl, now)} :
        IsSome(e) => Val(e) \in {<<>>, SlimAll(get_song_suggestions(QueueSeed, AllOk).val.data, Medium)}

-----------------------------------------------------------------------------
(* Specification SpecRace: concurrent get_recommendations requests of one  *)
(* user.  Each request is a thread of the server; its steps are the read   *)
(* of the snapshot (line 178), the pipeline (line 187) and the store call  *)
(* (line 190).  The snapshot node is written by the store call only.       *)

NumRacers == 2     \* concurrent requests
MaxRaceDrift == 1  \* seconds the clock runs during the requests
Racers == 1..NumRacers

IdleRacer == [pc |-> "idle", limit |-> 0, env |-> AllOk, recs |-> None]

\* the user has no snapshot, or one stored 1800 seconds ago; a request with
\* limit 1 finds the suggestions answering, one with limit 2 finds them
\* failing
InitRace ==
    /\ \E d \in {Scenario(<<Id1, Id2>>, {Id4}, <<ArtistX>>, {}, TRUE)} :
          \/ db = d /\ now = 0
          \/ db = get_recommendations(d, "u1", 2, TRUE, Medium, AllOk, 0, 0).db
             /\ now = StaleAfter
    /\ last = [prev   |-> get_stored_recommendations(db, "u1"),
               writer |-> 0, bundle |-> None]
    /\ proc = [p \in Racers |-> IdleRacer]
    /\ ret = NoRet /\ norm = NoNorm

TickRace ==
    /\ now % StaleAfter < MaxRaceDrift
    /\ now' = now + 1
    /\ UNCHANGED <<db, ret, last, proc, norm>>

\* lines 177-184: the request reads the snapshot; a fresh one is returned
RaceRead(p, limit, env) ==
    /\ proc[p].pc = "idle"
    /\ \E stored \in {get_stored_recommendations(db, "u1")} :
          IF IsSome(stored) /\ SnapshotFresh(Val(stored), now)
          THEN /\ proc' = [proc EXCEPT ![p].pc = "served"]
               /\ ret' = [op |-> "served", by |-> p, val |-> Val(stored)]
          ELSE /\ proc' = [proc EXCEPT ![p] = [pc |-> "generate", limit |-> limit,
                                                env |-> env, recs |-> None]]
               /\ ret' = ret
    /\ UNCHANGED <<db, now, last, norm>>

\* line 187: generate_fresh_recommendations; a pipeline that raises ends
\* the request before the store call
RaceGenerate(p) ==
    /\ proc[p].pc = "generate"
    /\ \E g \in {generate_fresh_recommendations(db, "u1", proc[p].limit, Medium,
                                                 proc[p].env, now)} :
          /\ db' = g.db
          /\ proc' = [proc EXCEPT ![p].pc = IF Completed(g) THEN "store" ELSE "failed",
                                  ![p].recs = IF Completed(g) THEN Some(g.recs)
                                              ELSE None]
    /\ UNCHANGED <<now, ret, last, norm>>

\* line 190: store_recommendations(user_id, recs); line 191 returns recs
RaceStore(p) ==
    /\ proc[p].pc = "store"
    /\ db' = store_recommendations(db, "u1", Val(proc[p].recs), now)
    /\ proc' = [proc EXCEPT ![p].pc = "done"]
    /\ last' = [last EXCEPT !.writer = p,
                            !.bundle = Some(StampUpdatedAt(Val(proc[p].recs), now))]
    /\ ret' = [op |-> "stored", by |-> p,
               val |-> StampUpdatedAt(Val(proc[p].recs), now)]
    /\ UNCHANGED <<now, norm>>

NextRace ==
    \/ TickRace
    \/ \E p \in Racers, limit \in 1..2 :
          \E env \in {e \in SnapEnvs : (e.suggest = "ok") <=> (limit = 1)} :
              RaceRead(p, limit, env)
    \/ \E p \in Racers : RaceGenerate(p)
    \/ \E p \in Racers : RaceStore(p)

SpecRace == InitRace /\ [][NextRace]_vars

\* the bundle a request in its store call writes
BundleOf(p, t) == StampUpdatedAt(Val(proc[p].recs), t)

\* C35: with concurrent get_recommendations requests of one user, every
\* step leaves users/{uid}/recommendations as it was or makes it the whole
\* bundle of one request that is at its store call, and in every state the
\* snapshot is the one found at the start or the bundle of the request that
\* wrote last.
C35_SnapshotIntegrity ==
    [][ /\ \/ get_stored_recommendations(db', "u1") =
                 get_stored_recommendations(db, "u1")
           \/ \E p \in Racers :
                 /\ proc[p].pc = "store"
                 /\ get_stored_recommendations(db', "u1") = Some(BundleOf(p, now))
        /\ get_stored_recommendations(db', "u1") =
              IF last'.writer = 0 THEN last'.prev ELSE last'.bundle ]_vars

\* two requests have stored bundles that differ in more than the stamp, and
\* the snapshot is the bundle of the second writer
C35_Witness ==
    /\ \A p \in Racers : proc[p].pc = "done"
    /\ proc[1].recs # proc[2].recs
    /\ last.writer = 1
    /\ get_stored_recommendations(db, "u1") = last.bundle
    /\ Val(last.bundle).personalized = Val(proc[1].recs).personalized
    /\ Val(last.bundle).personalized # Val(proc[2].recs).personalized

-----------------------------------------------------------------------------
(* Specification SpecCount: concurrent record_play requests from the empty *)
(* store, as in SpecPlay, with a record of the songs for which two         *)
(* requests ever overlapped                                                *)

MaxCountPlays == 3  \* record_play requests started in a run

\* requests in flight on the counter of a song
InFlight(song_id) ==
    {p \in Procs : proc[p].pc # "idle" /\ proc[p].id = song_id}

InitCount ==
    /\ db = InitDb /\ now = 0 /\ ret = NoRet /\ norm = NoNorm
    /\ last = [overlapped |-> {}]
    /\ proc = [p \in Procs |-> IdleProc]

\* record_play, line 178: the push of the history entry
PlayPush(p, user_id, song_id) ==
    /\ proc[p].pc = "idle"
    /\ PlaysLogged(Users, Id1) + PlaysLogged(Users, Id2) < MaxCountPlays
    /\ db' = push_recently_played(db, user_id, song_id, now)
    /\ proc' = [proc EXCEPT ![p] =
                  [pc |-> "read", node |-> "plays", id |-> song_id, count |-> 0]]
    /\ last' = [overlapped |-> last.overlapped \cup
                    (IF InFlight(song_id) # {} THEN {song_id} ELSE {})]
    /\ UNCHANGED <<now, ret, norm>>

\* lines 184-186: data = stats_ref.get() or {}; count = data.get("count", 0)
PlayRead(p) ==
    /\ proc[p].pc = "read"
    /\ proc' = [proc EXCEPT ![p].pc = "write",
                            ![p].count = read_count(db, "plays", proc[p].id)]
    /\ UNCHANGED <<db, now, ret, last, norm>>

\* line 187: stats_ref.set({"count": count + 1})
PlayWrite(p) ==
    /\ proc[p].pc = "write"
    /\ db' = write_count(db, "plays", proc[p].id, proc[p].count)
    /\ proc' = [proc EXCEPT ![p] = IdleProc]
    /\ UNCHANGED <<now, ret, last, norm>>

NextCount ==
    \/ \E p \in Procs, u \in Users, s \in PlaySongs : PlayPush(p, u, s)
    \/ \E p \in Procs : PlayRead(p)
    \/ \E p \in Procs : PlayWrite(p)

SpecCount == InitCount /\ [][NextCount]_vars

\* C36: from the empty store, under every interleaving of record_play
\* requests, the play counter of a song is at most the number of
\* recently_played entries of the song over all users; when no two requests
\* for the song ever overlapped and none is in flight, it equals that number.
C36_CounterNeverOverCounts ==
    \A s \in PlaySongs :
        /\ read_count(db, "plays", s) <= PlaysLogged(Users, s)
        /\ (s \notin last.overlapped /\ InFlight(s) = {}) =>
              read_count(db, "plays", s) = PlaysLogged(Users, s)

\* three plays of s1 are logged, two of them by requests that overlapped,
\* and the counter stands at 2
C36_Witness ==
    /\ PlaysLogged(Users, Id1) = 3 /\ read_count(db, "plays", Id1) = 2
    /\ Id1 \in last.overlapped /\ InFlight(Id1) = {}

-----------------------------------------------------------------------------
(* Specification SpecHydrate: cache_set calls with up to and more than 20  *)
(* results, with and without results that lack an id, and instant searches *)
(* on the buckets they fill                                                *)

HydrateLists ==
    { PutList(2, {}), PutList(TopN, {}), PutList(TopN, {2}) }
      \cup { PutList(TopN + k, {}) : k \in 1..MaxOver }
      \cup { PutList(TopN + k, {TopN + 1}) : k \in 1..MaxOver }
HydrateTexts == { <<"X", "y">>, <<"X">>, <<"e", "e">> }
HydrateLimits == {1, TopN, TopN + MaxOver}

InitHydrate ==
    /\ db = InitDb /\ now = 0 /\ ret = NoRet /\ last = [listed |-> {}]
    /\ proc = NoProc /\ norm = NoNorm

\* cache_set(query, results); last keeps the ids that were ever among the
\* first 20 results of a call
HydrateSet(query, results) ==
    /\ db' = cache_set(db, query, results, now)
    /\ last' = [listed |-> last.listed \cup Range(ListedIds(Take(results, TopN)))]
    /\ ret' = [op |-> "cache_set", results |-> results]
    /\ UNCHANGED <<now, proc, norm>>

NextHydrate ==
    \/ \E query \in PutQueries, results \in HydrateLists : HydrateSet(query, results)
    \/ \E text \in HydrateTexts, limit \in HydrateLimits :
          SearchLocalIndex(text, limit)

SpecHydrate == InitHydrate /\ [][NextHydrate]_vars

\* the ids of all buckets
IndexedIds == UNION {db.prefix_index[p] : p \in DOMAIN db.prefix_index}

\* C37: after any sequence of cache_set calls every song id in a prefix
\* bucket has a record in songs/{id}, and search_local_index returns
\* min(limit, bucket size) entities for a bucket that exists.
C37_IndexedIdsHydratable ==
    /\ IndexedIds \subseteq DOMAIN db.songs
    /\ ( /\ ret.op = "search_local_index"
         /\ LowerAlnum(ret.text) \in DOMAIN db.prefix_index ) =>
          Len(ret.val) = Min(ret.limit,
                             Cardinality(db.prefix_index[LowerAlnum(ret.text)]))

\* C37 as amended: after any sequence of cache_set calls, the song ids of
\* the prefix buckets that have a record in songs/{id} are those that were
\* among the first 20 results of some call; search_local_index returns one
\* entity for each such id among the first limit ids of the bucket, and so
\* min(limit, bucket size) entities when all of these were.
C37_ListedIdsHydratable ==
    /\ IndexedIds \cap DOMAIN db.songs = IndexedIds \cap last.listed
    /\ ( /\ ret.op = "search_local_index"
         /\ LowerAlnum(ret.text) \in DOMAIN db.prefix_index ) =>
          /\ Len(ret.val) =
                Len(SelectSeqBy(TakenIds(db, LowerAlnum(ret.text), ret.limit),
                                last.listed))
          /\ Range(TakenIds(db, LowerAlnum(ret.text), ret.limit)) \subseteq last.listed
                => Len(ret.val) = Min(ret.limit,
                       Cardinality(db.prefix_index[LowerAlnum(ret.text)]))

\* a bucket of 22 ids, two of them never listed, answers a search with
\* limit 22 by 20 entities, and one with limit 20 by 20
C37_Witness ==
    /\ ret.op = "search_local_index"
    /\ LowerAlnum(ret.text) \in DOMAIN db.prefix_index
    /\ Cardinality(db.prefix_index[LowerAlnum(ret.text)]) = TopN + MaxOver
    /\ ret.limit = TopN + MaxOver
    /\ Len(ret.val) = TopN

-----------------------------------------------------------------------------
(* Specification SpecProfile: concurrent authenticated requests of one     *)
(* user.  Every request passes get_current_user, whose steps are the read  *)
(* of users/{uid}/profile and, if the read gave nothing, the set of the    *)
(* default profile; a POST /onboarding/languages request goes on with      *)
(* set_user_languages, whose steps are the set of the languages and the    *)
(* update of the profile.  The profiles are kept in a field of their own.  *)

MaxRequests == 3   \* requests started in a run

\* db_ops.get_user_profile: get("users/{uid}/profile") or {}
get_user_profile(d, user_id) == Get(d.profiles, user_id, EmptyMap)

\* the profile get_or_create_user_profile builds (lines 322-328)
DefaultProfile(default_data, t) ==
    [name |-> Get(default_data, "name", "User"),
     email |-> Get(default_data, "email", ""),
     photo |-> Get(default_data, "picture", ""),
     createdAt |-> t, onboardingComplete |-> FALSE]

\* set_val("users/{uid}/profile", profile)
set_profile(d, user_id, profile) ==
    [d EXCEPT !.profiles = Put(@, user_id, profile)]

\* update("users/{uid}/profile", value): the children named in value are
\* set, the others are left
update_profile(d, user_id, value) ==
    [d EXCEPT !.profiles = Put(@, user_id, value @@ get_user_profile(d, user_id))]

TokenData == [email |-> "u@gmail.com", name |-> "U", picture |-> "p"]
RequestKinds == {"languages", "other"}
IdleRequest == [pc |-> "idle", kind |-> "other", profile |-> EmptyMap]

InitProfile ==
    /\ db = InitDb @@ [profiles |-> EmptyMap]
    /\ now = 0 /\ ret = NoRet /\ norm = NoNorm
    /\ last = [started |-> 0, onboarded |-> FALSE, overwrote |-> FALSE]
    /\ proc = [p \in Procs |-> IdleRequest]

\* a request arrives; line 320: profile = get_user_profile(user_id)
ProfileRead(p, kind) ==
    /\ proc[p].pc = "idle" /\ last.started < MaxRequests
    /\ proc' = [proc EXCEPT ![p] = [pc |-> "create", kind |-> kind,
                                    profile |-> get_user_profile(db, "u1")]]
    /\ last' = [last EXCEPT !.started = @ + 1]
    /\ UNCHANGED <<db, now, ret, norm>>

\* lines 321-330: if not profile, the default profile is set; the request
\* goes on to its handler
ProfileCreate(p) ==
    /\ proc[p].pc = "create"
    /\ IF proc[p].profile = EmptyMap
       THEN /\ db' = set_profile(db, "u1", DefaultProfile(TokenData, now))
            /\ last' = [last EXCEPT !.overwrote =
                            @ \/ get_user_profile(db, "u1") # EmptyMap]
       ELSE UNCHANGED <<db, last>>
    /\ proc' = [proc EXCEPT ![p].pc =
                  IF proc[p].kind = "languages" THEN "languages" ELSE "idle"]
    /\ UNCHANGED <<now, ret, norm>>

\* set_user_languages, line 337: set_val("users/{uid}/languages", lang_dict)
LanguagesSet(p, languages) ==
    /\ proc[p].pc = "languages"
    /\ db' = set_user_languages(db, "u1", languages)
    /\ proc' = [proc EXCEPT ![p].pc = "update"]
    /\ UNCHANGED <<now, ret, last, norm>>

\* set_user_languages, line 338: update(profile, {"onboardingComplete": True})
OnboardingUpdate(p) ==
    /\ proc[p].pc = "update"
    /\ db' = update_profile(db, "u1", [onboardingComplete |-> TRUE])
    /\ proc' = [proc EXCEPT ![p].pc = "idle"]
    /\ last' = [last EXCEPT !.onboarded = TRUE]
    /\ UNCHANGED <<now, ret, norm>>

NextProfile ==
    \/ \E p \in Procs, kind \in RequestKinds : ProfileRead(p, kind)
    \/ \E p \in Procs : ProfileCreate(p)
    \/ \E p \in Procs, languages \in {{<<"H", "i">>}} : LanguagesSet(p, languages)
    \/ \E p \in Procs : OnboardingUpdate(p)

SpecProfile == InitProfile /\ [][NextProfile]_vars

OnboardingComplete(d) == Get(get_user_profile(d, "u1"), "onboardingComplete", FALSE)

\* C38: once set_user_languages has completed, the profile's
\* onboardingComplete is true in every later state, under every
\* interleaving with the get_or_create_user_profile calls of concurrent
\* requests of the user, and get_or_create_user_profile never writes over
\* a profile that exists.
C38_OnboardingFlagStable ==
    (last.onboarded => OnboardingComplete(db)) /\ ~last.overwrote

\* the flag is lost only by a get_or_create_user_profile that wrote over a
\* profile created after its read, and such a write is the only way a
\* profile is ever replaced
FlagLostOnlyByStaleCreate ==
    /\ (last.onboarded /\ ~last.overwrote) => OnboardingComplete(db)
    /\ [][ (get_user_profile(db, "u1") # EmptyMap /\ ~last'.overwrote) =>
              \A f \in DOMAIN get_user_profile(db, "u1") \ {"onboardingComplete"} :
                  get_user_profile(db', "u1")[f] = get_user_profile(db, "u1")[f] ]_vars

-----------------------------------------------------------------------------
(* Specification SpecPlaylist: POST /playlists and POST                    *)
(* /playlists/{id}/songs.  A request carries the outcome of verify_token;  *)
(* get_current_user rejects it or creates the profile, and the steps of    *)
(* add_to_playlist are the read of the playlist and the check with the     *)
(* write.  Playlists are keyed by the ids push() hands out.                *)

MaxPlaylists == 1     \* playlists created in a run
MaxAddRequests == 2   \* add_to_playlist requests started in a run

EndsWith(s, suffix) ==
    Len(s) >= Len(suffix) /\ SubSeq(s, Len(s) - Len(suffix) + 1, Len(s)) = suffix

GmailSuffix == <<"@", "g", "m", "a", "i", "l", ".", "c", "o", "m">>

\* what verify_token returns: None, or the decoded token
Tokens ==
    { None,
      Some([uid |-> "u1", email |-> <<"a">> \o GmailSuffix]),
      Some([uid |-> "u2", email |-> <<"b">> \o GmailSuffix]),
      Some([uid |-> "u3", email |-> <<"c", "@", "x", ".", "c", "o", "m">>]) }

\* get_current_user: 401 without a user, 403 for an address outside
\* gmail.com, otherwise the profile is created if there is none
get_current_user(d, token, t) ==
    IF ~IsSome(token) THEN [db |-> d, status |-> 401]
    ELSE IF ~EndsWith(Get(Val(token), "email", <<>>), GmailSuffix)
         THEN [db |-> d, status |-> 403]
    ELSE [db |-> IF get_user_profile(d, Val(token).uid) = EmptyMap
                 THEN set_profile(d, Val(token).uid,
                         DefaultProfile([email |-> Val(token).email], t))
                 ELSE d,
          status |-> 200]

PlaylistKeys == <<"p1", "p2", "p3">>   \* the keys of push(), in order
RequestedIds == {"p1", "px"}

\* db_ops.playlist_create: the empty songs node is not stored
playlist_create(d, user_id, name, t) ==
    [d EXCEPT !.playlists = Put(@, PlaylistKeys[Cardinality(DOMAIN @) + 1],
        [name |-> name, owner |-> user_id, createdAt |-> t])]

\* db_ops.playlist_get
playlist_get(d, playlist_id) ==
    IF playlist_id \in DOMAIN d.playlists THEN Some(d.playlists[playlist_id]) ELSE None

PlaylistSongs(d, playlist_id) ==
    IF playlist_id \in DOMAIN d.playlists
    THEN Get(d.playlists[playlist_id], "songs", {}) ELSE {}

\* db_ops.playlist_add_song: set_val("playlists/{id}/songs/{song_id}", True)
playlist_add_song(d, playlist_id, song_id) ==
    [d EXCEPT !.playlists = Put(@, playlist_id,
        [songs |-> PlaylistSongs(d, playlist_id) \cup {song_id}]
            @@ Get(d.playlists, playlist_id, EmptyMap))]

\* a variant without the owner check
add_to_playlist_Unowned(d, playlist, id, songId, user) ==
    IF ~IsSome(playlist) THEN [db |-> d, status |-> 404]
    ELSE [db |-> playlist_add_song(d, id, songId), status |-> 200]

\* routes/playlists.add_to_playlist after the read of the playlist
add_to_playlist(d, playlist, id, songId, user) ==
    IF ~IsSome(playlist) THEN [db |-> d, status |-> 404]
    ELSE IF Get(Val(playlist), "owner", None) # user.uid
         THEN [db |-> d, status |-> 403]
    ELSE [db |-> playlist_add_song(d, id, songId), status |-> 200]

IdleAdder == [pc |-> "idle"]
NoResponse == [status |-> 0]

InitPlaylist ==
    /\ db = InitDb @@ [profiles |-> EmptyMap, playlists |-> EmptyMap]
    /\ now = 0 /\ norm = NoNorm
    /\ ret = NoResponse
    /\ last = [started |-> 0]
    /\ proc = [p \in Procs |-> IdleAdder]

\* POST /playlists
CreatePlaylist(token, name) ==
    /\ Cardinality(DOMAIN db.playlists) < MaxPlaylists
    /\ \E auth \in {get_current_user(db, token, now)} :
         /\ db' = IF auth.status = 200
                  THEN playlist_create(auth.db, Val(token).uid, name, now)
                  ELSE db
         /\ ret' = [status |-> auth.status, op |-> "create"]
    /\ UNCHANGED <<now, last, proc, norm>>

\* POST /playlists/{id}/songs arrives: get_current_user
AddAuthenticate(p, token, id, songId) ==
    /\ proc[p].pc = "idle" /\ last.started < MaxAddRequests
    /\ last' = [last EXCEPT !.started = @ + 1]
    /\ \E auth \in {get_current_user(db, token, now)} :
         /\ db' = auth.db
         /\ IF auth.status = 200
            THEN /\ proc' = [proc EXCEPT ![p] = [pc |-> "get", user |-> Val(token),
                                                 id |-> id, songId |-> songId]]
                 /\ UNCHANGED ret
            ELSE /\ ret' = [status |-> auth.status, op |-> "auth", id |-> id,
                            songId |-> songId]
                 /\ UNCHANGED proc
    /\ UNCHANGED <<now, norm>>

\* line 38: playlist = db_ops.playlist_get(id)
AddRead(p) ==
    /\ proc[p].pc = "get"
    /\ proc' = [proc EXCEPT ![p] = [pc |-> "check", playlist |-> playlist_get(db, @.id)] @@ @]
    /\ UNCHANGED <<db, now, ret, last, norm>>

\* lines 39-46
AddCheck(p) ==
    /\ proc[p].pc = "check"
    /\ \E r \in {add_to_playlist(db, proc[p].playlist, proc[p].id, proc[p].songId,
                                  proc[p].user)} :
         /\ db' = r.db
         /\ ret' = [status |-> r.status, op |-> "add", id |-> proc[p].id,
                    songId |-> proc[p].songId, uid |-> proc[p].user.uid,
                    playlist |-> proc[p].playlist]
    /\ proc' = [proc EXCEPT ![p] = IdleAdder]
    /\ UNCHANGED <<now, last, norm>>

NextPlaylist ==
    \/ \E token \in Tokens, name \in {"n"} : CreatePlaylist(token, name)
    \/ \E p \in Procs, token \in Tokens, id \in RequestedIds, songId \in {Id1, Id2} :
          AddAuthenticate(p, token, id, songId)
    \/ \E p \in Procs : AddRead(p)
    \/ \E p \in Procs : AddCheck(p)

SpecPlaylist == InitPlaylist /\ [][NextPlaylist]_vars

Answered(p) == proc[p].pc = "check" /\ proc'[p].pc = "idle"

\* C39: a song is added to playlists/{id}/songs only by a request whose
\* authenticated user is the owner of the playlist; a request for a
\* playlist that was missing when the request read it is answered 404 and a
\* request of a user who is not the owner 403, and both leave the store as
\* it was.
C39_PlaylistOwnership ==
    [][ /\ \A id \in RequestedIds :
             PlaylistSongs(db', id) # PlaylistSongs(db, id) =>
                /\ ret'.op = "add" /\ ret'.status = 200 /\ ret'.id = id
                /\ id \in DOMAIN db.playlists
                /\ db.playlists[id].owner = ret'.uid
                /\ PlaylistSongs(db', id) = PlaylistSongs(db, id) \cup {ret'.songId}
        /\ \A p \in Procs : Answered(p) =>
             /\ ~IsSome(proc[p].playlist) =>
                   ret'.status = 404 /\ db'.playlists = db.playlists
             /\ (proc[p].id \in DOMAIN db.playlists
                   /\ IsSome(proc[p].playlist)
                   /\ db.playlists[proc[p].id].owner # proc[p].user.uid) =>
                   ret'.status = 403 /\ db'.playlists = db.playlists
             /\ ret'.status \in {403, 404} => db' = db
             /\ ret'.status \in {200, 403, 404} ]_vars

C39_Witness ==
    /\ ret.status = 403 /\ ret.op = "add"
    /\ PlaylistSongs(db, ret.id) # {}

\* a playlist that was read is in the store with the owner that was read:
\* nothing removes a playlist or changes its owner
PlaylistReadStable ==
    \A p \in Procs : (proc[p].pc = "check" /\ IsSome(proc[p].playlist)) =>
        /\ proc[p].id \in DOMAIN db.playlists
        /\ db.playlists[proc[p].id].owner = Val(proc[p].playlist).owner

=========================================================================
